---- MODULE Spec2Model ----
(***************************************************************************)
(* Trader reliability validation (the hyperliquid-traders edge function)   *)
(* and the evaluation score of the database schema.                        *)
(*                                                                         *)
(* JavaScript numbers are modelled as rationals [n, d] in lowest terms,    *)
(* with d = 0 for the non-finite values: NaN is [n |-> 0, d |-> 0] and     *)
(* +/-Infinity is [n |-> +/-1, d |-> 0].  Fill fields that arrive as JSON  *)
(* strings (px, sz, closedPnl) are sequences of one-character strings and  *)
(* are converted with ParseFloat.  A timestamp is [d, ms]: whole days and  *)
(* the milliseconds within the day, because epoch milliseconds exceed the  *)
(* integers of the model checker; every operation on timestamps is the     *)
(* exact millisecond arithmetic in that representation.                    *)
(***************************************************************************)
EXTENDS Integers, Sequences, FiniteSets, TLC

VARIABLES
    response,          \* what the upstream answers to the userFills request
    leaderboardPnl,    \* the all-time pnl of the trader's leaderboard entry
    now,               \* the wall clock, Date.now()
    ticks,             \* how often the clock has advanced
    results,           \* the last call of validateTrader with its result
    coinPerformances,  \* the last call of calculateTopCoins with its result
    scored,            \* the last call of calculate_evaluation_score
    classified,        \* the last call of getScoreClassification
    handler,           \* the request the edge function is serving
    call,              \* the last call of a pure function with its result
    db,                \* the rows of the tables traders and evaluations
    sessions,          \* the database sessions running find_or_create_trader
    retry,             \* the call of fetchWithRetry in progress
    memory             \* the arrays of a call of validateTrader

vars == <<response, leaderboardPnl, now, ticks, results, coinPerformances, scored,
          classified, handler, call, db, sessions, retry, memory>>

(***************************************************************************)
(* Numbers                                                                 *)
(***************************************************************************)
Abs(x) == IF x < 0 THEN -x ELSE x

RECURSIVE GCD(_, _)
GCD(a, b) == IF b = 0 THEN a ELSE GCD(b, a % b)

NaN == [n |-> 0, d |-> 0]

IsNaN(x) == x.d = 0 /\ x.n = 0

Sign(x) == IF x > 0 THEN 1 ELSE IF x < 0 THEN -1 ELSE 0

\* The number n/d (d >= 0) in lowest terms; n/0 is NaN or an infinity.
Rat(n, d) ==
    IF d = 0 THEN [n |-> Sign(n), d |-> 0]
    ELSE LET g == GCD(Abs(n), d) IN [n |-> n \div g, d |-> d \div g]

Num(i) == [n |-> i, d |-> 1]

NumAdd(a, b) ==
    IF IsNaN(a) \/ IsNaN(b) THEN NaN
    ELSE IF a.d = 0 /\ b.d = 0 THEN (IF a.n = b.n THEN a ELSE NaN)
    ELSE IF a.d = 0 THEN a
    ELSE IF b.d = 0 THEN b
    ELSE Rat(a.n * b.d + b.n * a.d, a.d * b.d)

NumNeg(a) == [n |-> -a.n, d |-> a.d]

NumSub(a, b) == NumAdd(a, NumNeg(b))

NumMul(a, b) ==
    IF IsNaN(a) \/ IsNaN(b) THEN NaN
    ELSE Rat(a.n * b.n, a.d * b.d)

NumDiv(a, b) ==
    IF IsNaN(a) \/ IsNaN(b) THEN NaN
    ELSE IF b.n < 0 THEN Rat(-(a.n * b.d), a.d * (-b.n))
    ELSE Rat(a.n * b.d, a.d * b.n)

\* The comparisons of JavaScript: every comparison with NaN is false.
NumGt(a, b) == ~IsNaN(a) /\ ~IsNaN(b) /\ a.n * b.d > b.n * a.d

NumLt(a, b) == NumGt(b, a)

NumGe(a, b) == ~IsNaN(a) /\ ~IsNaN(b) /\ a.n * b.d >= b.n * a.d

NumLe(a, b) == NumGe(b, a)

\* a !== 0
NumNotZero(a) == IsNaN(a) \/ a.n # 0

\* a || 0
OrZero(a) == IF IsNaN(a) \/ a.n = 0 THEN Num(0) ELSE a

\* Number.prototype.toFixed(1) of a non-negative number: <<whole, tenth>>,
\* and <<>> for the text "NaN".
ToFixed1(x) ==
    IF x.d = 0 THEN <<>>
    ELSE LET tenths == (x.n * 20 + x.d) \div (2 * x.d)
         IN  <<tenths \div 10, tenths % 10>>

(***************************************************************************)
(* parseFloat on the strings of the model: an optional minus sign and the  *)
(* longest prefix of decimal digits; NaN when there is no digit (also for  *)
(* a missing field, written <<>>).                                         *)
(***************************************************************************)
Digits == {"0", "1", "2", "3", "4", "5", "6", "7", "8", "9"}

DigitVal(c) ==
    CASE c = "0" -> 0 [] c = "1" -> 1 [] c = "2" -> 2 [] c = "3" -> 3
      [] c = "4" -> 4 [] c = "5" -> 5 [] c = "6" -> 6 [] c = "7" -> 7
      [] c = "8" -> 8 [] c = "9" -> 9

RECURSIVE ParseDigits(_, _, _)
\* The value of the digit prefix of s from position i on, acc read so far;
\* -1 when the prefix is empty.
ParseDigits(s, i, acc) ==
    IF i <= Len(s) /\ s[i] \in Digits
    THEN ParseDigits(s, i + 1, (IF acc < 0 THEN 0 ELSE acc) * 10 + DigitVal(s[i]))
    ELSE acc

ParseFloat(s) ==
    LET neg == Len(s) > 0 /\ s[1] = "-"
        v   == ParseDigits(s, IF neg THEN 2 ELSE 1, -1)
    IN  IF v < 0 THEN NaN ELSE Num(IF neg THEN -v ELSE v)

(***************************************************************************)
(* Loops over an array are recursions over the index i that carry the      *)
(* state of the loop.  Evaluated(next) only makes the model checker        *)
(* compute the state of an iteration before it goes on to the following.   *)
(***************************************************************************)
Evaluated(v) == DOMAIN v = DOMAIN v

(***************************************************************************)
(* Timestamps                                                              *)
(***************************************************************************)
MsPerDay == 1000 * 60 * 60 * 24

Time(d, ms) == [d |-> d, ms |-> ms]

TimeLt(a, b) == a.d < b.d \/ (a.d = b.d /\ a.ms < b.ms)

TimeLe(a, b) == ~TimeLt(b, a)

\* Math.floor((a - b) / MsPerDay)
FloorDays(a, b) == (a.d - b.d) - (IF a.ms < b.ms THEN 1 ELSE 0)

\* Math.min(...timestamps) of a non-empty list of fills
OldestTrade(fs) ==
    LET ts == {fs[i].time : i \in 1..Len(fs)}
    IN  CHOOSE t \in ts : \A u \in ts : TimeLe(t, u)

(***************************************************************************)
(* getUserFills: the upstream answer is an array of fills, or the request  *)
(* fails (HTTP status not ok, a thrown network error, a body that is no    *)
(* array); every failure yields the empty list.                            *)
(***************************************************************************)
Min(a, b) == IF a < b THEN a ELSE b

Max(a, b) == IF a > b THEN a ELSE b

\* Array.prototype.slice(0, end)
Slice0(s, end) ==
    LET e == IF end < 0 THEN Max(Len(s) + end, 0) ELSE Min(end, Len(s))
    IN  SubSeq(s, 1, e)

FillsLimit == 1000

\* The function without the test of response.ok.
GetUserFillsIgnoringStatus(resp, limit) == Slice0(resp.body, limit)

GetUserFills(resp, limit) ==
    IF resp.kind = "ok" THEN Slice0(resp.body, limit) ELSE <<>>

(***************************************************************************)
(* calculateTopCoins                                                       *)
(***************************************************************************)
\* The position of coin in the statistics collected so far, 0 if absent.
CoinIndex(stats, coin) ==
    IF \E i \in 1..Len(stats) : stats[i].coin = coin
    THEN CHOOSE i \in 1..Len(stats) : stats[i].coin = coin
    ELSE 0

\* One iteration of the loop over the fills; coinStats keeps the order in
\* which the coins were first entered (the order of Object.entries).
AddToCoinStats(stats, fill) ==
    LET pnl == OrZero(ParseFloat(fill.closedPnl))
        i   == CoinIndex(stats, fill.coin)
        old == IF i = 0 THEN [coin |-> fill.coin, pnl |-> Num(0), wins |-> 0, total |-> 0]
               ELSE stats[i]
        new == [coin  |-> old.coin,
                pnl   |-> NumAdd(old.pnl, pnl),
                wins  |-> old.wins + (IF NumGt(pnl, Num(0)) THEN 1 ELSE 0),
                total |-> old.total + 1]
    IN  IF pnl.n = 0 THEN stats
        ELSE IF i = 0 THEN Append(stats, new)
        ELSE [stats EXCEPT ![i] = new]

RECURSIVE CoinStatsLoop(_, _, _)
\* for (const fill of fills)
CoinStatsLoop(s, i, st) ==
    IF i > Len(s) THEN st
    ELSE LET next == AddToCoinStats(st, s[i])
         IN  IF Evaluated(next) THEN CoinStatsLoop(s, i + 1, next) ELSE next

CoinStats(fs) == CoinStatsLoop(fs, 1, <<>>)

CoinWinRate(stats) ==
    IF stats.total > 0 THEN NumMul(NumDiv(Num(stats.wins), Num(stats.total)), Num(100))
    ELSE Num(0)

ToCoinPerformance(stats) ==
    [coin |-> stats.coin, pnl |-> stats.pnl, trades |-> stats.total,
     winRate |-> CoinWinRate(stats)]

\* The comparator (a, b) => b.pnl - a.pnl is negative: a goes before b.
PnlBefore(a, b) == NumGt(a.pnl, b.pnl)

\* Stable insertion into a sorted list: x goes behind every element that
\* does not sort after it.
InsertByPnl(sorted, x) ==
    IF sorted = <<>> \/ ~PnlBefore(x, sorted[Len(sorted)]) THEN Append(sorted, x)
    ELSE LET p == Cardinality({i \in 1..Len(sorted) : ~PnlBefore(x, sorted[i])})
         IN  SubSeq(sorted, 1, p) \o <<x>> \o SubSeq(sorted, p + 1, Len(sorted))

RECURSIVE SortByPnlLoop(_, _, _)
SortByPnlLoop(s, i, st) ==
    IF i > Len(s) THEN st
    ELSE LET next == InsertByPnl(st, s[i])
         IN  IF Evaluated(next) THEN SortByPnlLoop(s, i + 1, next) ELSE next

\* Array.prototype.sort with this comparator: a stable sort.
SortByPnl(s) == SortByPnlLoop(s, 1, <<>>)

\* The entries cut off in the order of Object.entries, without the sort.
CalculateTopCoinsUnsorted(fs, limit) ==
    LET stats == CoinStats(fs)
        perf  == [i \in 1..Len(stats) |-> ToCoinPerformance(stats[i])]
    IN  Slice0(perf, limit)

CalculateTopCoins(fs, limit) ==
    LET stats == CoinStats(fs)
        perf  == [i \in 1..Len(stats) |-> ToCoinPerformance(stats[i])]
    IN  Slice0(SortByPnl(perf), limit)

(***************************************************************************)
(* calculateMaxDrawdown                                                    *)
(***************************************************************************)
\* The comparator (a, b) => a.time - b.time is negative: a goes before b.
TimeBefore(a, b) == TimeLt(a.time, b.time)

\* Stable insertion into a sorted list: x goes behind every element that
\* does not sort after it.
InsertByTime(sorted, x) ==
    IF sorted = <<>> \/ ~TimeBefore(x, sorted[Len(sorted)]) THEN Append(sorted, x)
    ELSE LET p == Cardinality({i \in 1..Len(sorted) : ~TimeBefore(x, sorted[i])})
         IN  SubSeq(sorted, 1, p) \o <<x>> \o SubSeq(sorted, p + 1, Len(sorted))

RECURSIVE SortByTimeLoop(_, _, _)
SortByTimeLoop(s, i, st) ==
    IF i > Len(s) THEN st
    ELSE LET next == InsertByTime(st, s[i])
         IN  IF Evaluated(next) THEN SortByTimeLoop(s, i + 1, next) ELSE next

\* [...fills].sort(...): a stable sort of a copy.
SortByTime(s) == SortByTimeLoop(s, 1, <<>>)

\* (peak - cumulativePnl) / peak * 100
Drawdown(peak, cumulativePnl) ==
    NumMul(NumDiv(NumSub(peak, cumulativePnl), peak), Num(100))

\* One iteration of the loop without the test peak > 0 before the division.
DrawdownStepUnguarded(st, fill) ==
    LET pnl  == OrZero(ParseFloat(fill.closedPnl))
        cum  == NumAdd(st.cumulativePnl, pnl)
        peak == IF NumGt(cum, st.peak) THEN cum ELSE st.peak
        dd   == Drawdown(peak, cum)
    IN  [cumulativePnl |-> cum,
         peak          |-> peak,
         maxDrawdown   |-> IF NumGt(dd, st.maxDrawdown) THEN dd ELSE st.maxDrawdown,
         divisions     |-> st.divisions + 1]

\* One iteration of the loop over the sorted fills; divisions counts how
\* often the iterations so far have divided by peak.
DrawdownStep(st, fill) ==
    LET pnl  == OrZero(ParseFloat(fill.closedPnl))
        cum  == NumAdd(st.cumulativePnl, pnl)
        peak == IF NumGt(cum, st.peak) THEN cum ELSE st.peak
        dd   == Drawdown(peak, cum)
    IN  [cumulativePnl |-> cum,
         peak          |-> peak,
         maxDrawdown   |-> IF NumGt(peak, Num(0)) /\ NumGt(dd, st.maxDrawdown)
                           THEN dd ELSE st.maxDrawdown,
         divisions     |-> st.divisions + (IF NumGt(peak, Num(0)) THEN 1 ELSE 0)]

RECURSIVE DrawdownLoop(_, _, _)
\* for (const fill of sortedFills)
DrawdownLoop(s, i, st) ==
    IF i > Len(s) THEN st
    ELSE LET next == DrawdownStep(st, s[i])
         IN  IF Evaluated(next) THEN DrawdownLoop(s, i + 1, next) ELSE next

\* The variables of the function when its loop ends.
DrawdownRun(fs) ==
    DrawdownLoop(SortByTime(fs), 1,
                 [cumulativePnl |-> Num(0), peak |-> Num(0),
                  maxDrawdown |-> Num(0), divisions |-> 0])

CalculateMaxDrawdown(fs) ==
    IF Len(fs) = 0 THEN Num(0) ELSE DrawdownRun(fs).maxDrawdown

(***************************************************************************)
(* validateTrader                                                          *)
(***************************************************************************)
MinAccountAgeDays == 30

MinTotalTrades == 50

MaxLargestWinPct == 40

MinDiversification == 3

MaxWinRatePct == 90

TopCoinsLimit == 3

\* closedTrades = fills.filter((f) => parseFloat(f.closedPnl) !== 0)
ClosedTrades(fs) ==
    LET closed(f) == NumNotZero(ParseFloat(f.closedPnl)) IN SelectSeq(fs, closed)

\* wins = closedTrades.filter((f) => parseFloat(f.closedPnl) > 0)
Wins(closedTrades) ==
    LET win(f) == NumGt(ParseFloat(f.closedPnl), Num(0)) IN SelectSeq(closedTrades, win)

\* The division without the test for an empty list of closed trades.
WinRateUnguarded(fs) ==
    LET closedTrades == ClosedTrades(fs)
    IN  NumMul(NumDiv(Num(Len(Wins(closedTrades))), Num(Len(closedTrades))), Num(100))

WinRate(fs) ==
    LET closedTrades == ClosedTrades(fs)
    IN  IF Len(closedTrades) > 0
        THEN NumMul(NumDiv(Num(Len(Wins(closedTrades))), Num(Len(closedTrades))), Num(100))
        ELSE Num(0)

Diversification(fs) == Cardinality({fs[i].coin : i \in 1..Len(fs)})

\* The larger of two numbers as Math.max takes it: NaN if one is NaN.
Larger(acc, x) ==
    IF IsNaN(x) \/ IsNaN(acc) THEN NaN ELSE IF NumGt(x, acc) THEN x ELSE acc

RECURSIVE MathMaxLoop(_, _, _)
MathMaxLoop(s, i, st) ==
    IF i > Len(s) THEN st
    ELSE LET next == Larger(st, s[i])
         IN  IF Evaluated(next) THEN MathMaxLoop(s, i + 1, next) ELSE next

\* Math.max(...pnls): the largest argument, NaN if one argument is NaN and
\* -Infinity without arguments.
MathMax(s) == MathMaxLoop(s, 1, [n |-> -1, d |-> 0])

LargestWinPct(fs, pnl) ==
    LET closedTrades == ClosedTrades(fs)
        pnls == [i \in 1..Len(closedTrades) |-> ParseFloat(closedTrades[i].closedPnl)]
    IN  IF Len(closedTrades) > 0 /\ pnl > 0
        THEN NumMul(NumDiv(MathMax(pnls), Num(pnl)), Num(100))
        ELSE Num(0)

RECURSIVE SumSeqLoop(_, _, _)
SumSeqLoop(s, i, st) ==
    IF i > Len(s) THEN st
    ELSE LET next == NumAdd(st, s[i])
         IN  IF Evaluated(next) THEN SumSeqLoop(s, i + 1, next) ELSE next

\* tradeSizes.reduce((a, b) => a + b, 0)
SumSeq(s) == SumSeqLoop(s, 1, Num(0))

AvgTradeSize(fs) ==
    LET tradeSizes == [i \in 1..Len(fs) |-> NumMul(ParseFloat(fs[i].sz), ParseFloat(fs[i].px))]
    IN  NumDiv(SumSeq(tradeSizes), Num(Len(tradeSizes)))

AccountAge(fs, t) == FloorDays(t, OldestTrade(fs))

Reason(text, args) == [text |-> text, args |-> args]

NoHistory == Reason("No trade history available", <<>>)

\* The validation object as it is before the rules run.
Measured(fs, pnl, t) ==
    [isReliable  |-> TRUE,
     reasons     |-> <<>>,
     maxDrawdown |-> CalculateMaxDrawdown(fs),
     topCoins    |-> CalculateTopCoins(fs, TopCoinsLimit),
     metrics     |-> [accountAge      |-> AccountAge(fs, t),
                      totalTrades     |-> Len(fs),
                      winRate         |-> WinRate(fs),
                      avgTradeSize    |-> AvgTradeSize(fs),
                      largestWinPct   |-> LargestWinPct(fs, pnl),
                      diversification |-> Diversification(fs)]]

\* A rule that fails marks the trader unreliable and appends its reason.
Fail(v, cond, reason) ==
    IF cond THEN [v EXCEPT !.isReliable = FALSE, !.reasons = Append(@, reason)] ELSE v

\* A rule that only warns.
Warn(v, cond, reason) ==
    IF cond THEN [v EXCEPT !.reasons = Append(@, reason)] ELSE v

RuleAge(v) ==
    Fail(v, v.metrics.accountAge < MinAccountAgeDays,
         Reason("Account too new: ${accountAge} days", <<v.metrics.accountAge>>))

RuleTrades(v) ==
    Fail(v, v.metrics.totalTrades < MinTotalTrades,
         Reason("Too few trades: ${totalTrades}", <<v.metrics.totalTrades>>))

RuleSingleTrade(v) ==
    Fail(v, NumGt(v.metrics.largestWinPct, Num(MaxLargestWinPct)),
         Reason("PnL too dependent on single trade: ${largestWinPct.toFixed(1)}%",
                ToFixed1(v.metrics.largestWinPct)))

RuleDiversification(v) ==
    Fail(v, v.metrics.diversification < MinDiversification,
         Reason("Low diversification: only ${diversification} coins",
                <<v.metrics.diversification>>))

\* The fifth rule marking the trader unreliable like the other four.
RuleWinRateUnreliable(v) ==
    Fail(v, NumGt(v.metrics.winRate, Num(MaxWinRatePct)),
         Reason("Suspiciously high win rate: ${winRate.toFixed(1)}%",
                ToFixed1(v.metrics.winRate)))

RuleWinRate(v) ==
    Warn(v, NumGt(v.metrics.winRate, Num(MaxWinRatePct)),
         Reason("Suspiciously high win rate: ${winRate.toFixed(1)}%",
                ToFixed1(v.metrics.winRate)))

ApplyRules(v) ==
    RuleWinRate(RuleDiversification(RuleSingleTrade(RuleTrades(RuleAge(v)))))

\* What validateTrader returns when the list of fills is empty.
EmptyValidation ==
    [isReliable  |-> FALSE,
     reasons     |-> <<NoHistory>>,
     maxDrawdown |-> Num(0),
     topCoins    |-> <<>>,
     metrics     |-> [accountAge |-> 0, totalTrades |-> 0, winRate |-> Num(0),
                      avgTradeSize |-> Num(0), largestWinPct |-> Num(0),
                      diversification |-> 0]]

\* The check for an empty list without its return: the rules run as well.
ValidateFillsNoReturn(fs, pnl, t) ==
    IF Len(fs) = 0 THEN ApplyRules(EmptyValidation) ELSE ApplyRules(Measured(fs, pnl, t))

ValidateFills(fs, pnl, t) ==
    IF Len(fs) = 0 THEN EmptyValidation ELSE ApplyRules(Measured(fs, pnl, t))

\* validateTrader(address, leaderboardPnl), called at time t while the
\* upstream answers resp.
ValidateTrader(resp, pnl, t) == ValidateFills(GetUserFills(resp, FillsLimit), pnl, t)

(***************************************************************************)
(* calculate_evaluation_score(p_metrics, p_criteria) of the schema.        *)
(* p_metrics is a JSON object: a function from the keys it has to their    *)
(* values.  NUMERIC arithmetic is exact, so it is the rational arithmetic  *)
(* above; LN is tabulated to four decimals for the copier counts of the    *)
(* model.                                                                  *)
(***************************************************************************)
\* COALESCE((p_metrics->>key)::NUMERIC, default)
Coalesce(m, key, default) == IF key \in DOMAIN m THEN Num(m[key]) ELSE Num(default)

Least(a, b) == IF NumLt(b, a) THEN b ELSE a

Greatest(a, b) == IF NumGt(b, a) THEN b ELSE a

RoiCap == 100

\* LN(c) for c >= 1
Ln(c) ==
    CASE c.n = 1   -> Num(0)
      [] c.n = 2   -> Rat(6931, 10000)
      [] c.n = 10  -> Rat(23026, 10000)
      [] c.n = 100 -> Rat(46052, 10000)
      [] c.n = 200 -> Rat(52983, 10000)

\* ROUND(x, 2): to the nearest hundredth, ties away from zero.
Round2(x) ==
    LET a     == Abs(x.n)
        whole == a \div x.d
        rest  == a % x.d
        cents == whole * 100 + (rest * 200 + x.d) \div (2 * x.d)
    IN  Rat(Sign(x.n) * cents, 100)

RoiScore(v_roi_90d) == NumMul(Least(v_roi_90d, Num(RoiCap)), Rat(30, 100))

\* The drawdown score with the difference the wrong way round.
DrawdownScoreFlipped(v_max_drawdown) ==
    Greatest(NumSub(NumMul(v_max_drawdown, Rat(5, 10)), Num(25)), Num(0))

DrawdownScore(v_max_drawdown) ==
    Greatest(NumSub(Num(25), NumMul(v_max_drawdown, Rat(5, 10))), Num(0))

WinRateScore(v_win_rate) == NumMul(v_win_rate, Rat(20, 100))

CopiersScore(v_copiers) ==
    Least(NumMul(Ln(Greatest(v_copiers, Num(1))), Num(3)), Num(15))

ExperienceScore(v_days_active) == Least(NumDiv(v_days_active, Rat(365, 10)), Num(10))

CalculateEvaluationScore(m) ==
    LET v_roi_90d      == Coalesce(m, "roi_90d_pct", 0)
        v_max_drawdown == Coalesce(m, "max_drawdown_pct", 100)
        v_win_rate     == Coalesce(m, "win_rate_pct", 0)
        v_copiers      == Coalesce(m, "copiers", 0)
        v_days_active  == Coalesce(m, "days_active", 0)
        v_score == NumAdd(NumAdd(NumAdd(NumAdd(RoiScore(v_roi_90d),
                                               DrawdownScore(v_max_drawdown)),
                                        WinRateScore(v_win_rate)),
                                 CopiersScore(v_copiers)),
                          ExperienceScore(v_days_active))
    IN  Round2(Least(v_score, Num(100)))

\* risk_profile TEXT NOT NULL CHECK (risk_profile IN (...))
RiskProfiles == {"conservative", "moderate", "aggressive"}

\* get_default_criteria(p_risk_profile): the JSON object of the profile, the
\* empty object for any other text.
get_default_criteria(p_risk_profile) ==
    CASE p_risk_profile = "conservative" ->
             [roi_90d_range_pct |-> <<10, 30>>, max_drawdown_pct_lte |-> 10,
              win_rate_pct_gte |-> 60, min_days_active |-> 180,
              leverage_range |-> <<1, 2>>, min_copiers |-> 100]
      [] p_risk_profile = "moderate" ->
             [roi_90d_range_pct |-> <<20, 60>>, max_drawdown_pct_lte |-> 20,
              win_rate_pct_gte |-> 55, min_days_active |-> 90,
              leverage_range |-> <<1, 3>>, min_copiers |-> 50]
      [] p_risk_profile = "aggressive" ->
             [roi_90d_range_pct |-> <<40, 200>>, max_drawdown_pct_lte |-> 35,
              win_rate_pct_gte |-> 50, min_days_active |-> 60,
              leverage_range |-> <<1, 5>>, min_copiers |-> 20]
      [] OTHER -> <<>>

\* calculate_evaluation_score(p_metrics, p_criteria): the body reads
\* p_metrics only; p_criteria is a parameter it never uses.
calculate_evaluation_score(p_metrics, p_criteria) == CalculateEvaluationScore(p_metrics)

(***************************************************************************)
(* getScoreClassification(score) of the frontend's formatters.             *)
(***************************************************************************)
Classification(label, color, variant) ==
    [label |-> label, color |-> color, variant |-> variant]

\* The classification with every threshold compared by > instead of >=.
GetScoreClassificationExclusive(score) ==
    IF NumGt(score, Num(85)) THEN Classification("Excelente", "text-success", "success")
    ELSE IF NumGt(score, Num(70)) THEN Classification("Bueno", "text-info", "info")
    ELSE IF NumGt(score, Num(55)) THEN Classification("Aceptable", "text-warning", "warning")
    ELSE IF NumGt(score, Num(40)) THEN Classification("Marginal", "text-danger", "danger")
    ELSE Classification("Pobre", "text-danger", "danger")

GetScoreClassification(score) ==
    IF NumGe(score, Num(85)) THEN Classification("Excelente", "text-success", "success")
    ELSE IF NumGe(score, Num(70)) THEN Classification("Bueno", "text-info", "info")
    ELSE IF NumGe(score, Num(55)) THEN Classification("Aceptable", "text-warning", "warning")
    ELSE IF NumGe(score, Num(40)) THEN Classification("Marginal", "text-danger", "danger")
    ELSE Classification("Pobre", "text-danger", "danger")

(***************************************************************************)
(* The inputs: what the upstream answers for the trader, the all-time pnl  *)
(* of the leaderboard entry, and the clock.                                *)
(***************************************************************************)
MaxVaried == 2

MaxTicks == 1

MaxLimit == 4

Fill(coin, day, ms, closedPnl, sz, px) ==
    [coin |-> coin, time |-> Time(day, ms), closedPnl |-> closedPnl,
     sz |-> sz, px |-> px]

NowStart == Time(29, 0)

\* A day the clock of the model does not reach: a fill stamped by the
\* upstream with a time ahead of the clock of the edge function.
FutureDay == NowStart.d + MaxTicks + 10

\* Fills the upstream may return; <<"x">> is text that is no number and
\* <<>> a field that is missing.
FillSamples ==
    { Fill("BTC", 0, 0, <<"1", "0">>,      <<"1">>, <<"2">>),
      Fill("ETH", 1, 0, <<"-", "3", "0">>, <<"1">>, <<"2">>),
      Fill("SOL", 1, 0, <<"4">>,           <<"3">>, <<"2">>),
      Fill("ETH", 0, 1, <<"x">>,           <<"1">>, <<"2">>),
      Fill("SOL", 2, 0, <<"0">>,           <<>>,    <<"2">>),
      Fill("ETH", 2, 0, <<"1", "0">>,      <<"1">>, <<"5">>),
      Fill("BTC", 1, 0, <<"-", "4">>,      <<"2">>, <<"2">>) }

\* A fill that opens a position: it has no realized pnl.
OpeningFill == Fill("BTC", 0, 0, <<"0">>, <<"1">>, <<"2">>)

\* Histories of up to MaxVaried sample fills, alone or behind as many
\* opening fills as make the longest history reach the trade-count rule.
VariedFills == UNION {[1..k -> FillSamples] : k \in 0..MaxVaried}

PadCounts == {0, MinTotalTrades - MaxVaried}

Responses ==
    {[kind |-> "ok", body |-> [i \in 1..p |-> OpeningFill] \o v] :
        v \in VariedFills, p \in PadCounts}
    \cup {[kind |-> k, body |-> <<>>] : k \in {"http_error", "network_error", "not_array"}}

LeaderboardPnls == {0, 10, 25}

\* The edge function before a request arrives.
NoRequest == [pc |-> "idle"]

\* The tables before any statement has run.
NoRows == [traders |-> <<>>, evaluations |-> <<>>]

\* No call of fetchWithRetry is in progress.
NoCall == [pc |-> "idle"]

\* The memory before anything is allocated.
NoMemory == [objects |-> <<>>, arrays |-> <<>>]

Init ==
    /\ response \in Responses
    /\ leaderboardPnl \in LeaderboardPnls
    /\ now = NowStart
    /\ ticks = 0
    /\ results = <<>>
    /\ coinPerformances = <<>>
    /\ scored = <<>>
    /\ classified = <<>>
    /\ handler = NoRequest
    /\ call = <<>>
    /\ db = NoRows
    /\ sessions = <<>>
    /\ retry = NoCall
    /\ memory = NoMemory

\* Wall-clock time passes.
Tick ==
    /\ ticks < MaxTicks
    /\ ticks' = ticks + 1
    /\ now' = Time(now.d + 1, now.ms)
    /\ UNCHANGED <<response, leaderboardPnl, results, coinPerformances, scored,
                   classified, handler, call, db, sessions, retry, memory>>

\* One call of validateTrader; Date.now() is read inside the call.  The
\* model keeps the last call: when it ran and what it returned.
CallValidateTrader ==
    /\ results' = <<[at |-> now,
                     validation |-> ValidateTrader(response, leaderboardPnl, now)]>>
    /\ UNCHANGED <<response, leaderboardPnl, now, ticks, coinPerformances, scored,
                   classified, handler, call, db, sessions, retry, memory>>

Next == Tick \/ CallValidateTrader

Spec == Init /\ [][Next]_vars

\* calculateTopCoins called on the fetched fills with a limit of the caller.
CallCalculateTopCoins ==
    /\ \E limit \in 0..MaxLimit :
          coinPerformances' =
              <<[limit |-> limit,
                 out   |-> CalculateTopCoins(GetUserFills(response, FillsLimit), limit)]>>
    /\ UNCHANGED <<response, leaderboardPnl, now, ticks, results, scored,
                   classified, handler, call, db, sessions, retry, memory>>

NextTopCoins == CallCalculateTopCoins

SpecTopCoins == Init /\ [][NextTopCoins]_vars

(***************************************************************************)
(* validateTrader called on histories that differ in their timestamps:     *)
(* fills of different days and milliseconds, in every order, one of them   *)
(* stamped ahead of the clock.                                             *)
(***************************************************************************)
TimedFills ==
    { Fill("BTC", 0, 0, <<"1", "0">>, <<"1">>, <<"2">>),
      Fill("ETH", 0, 1, <<"4">>, <<"1">>, <<"2">>),
      Fill("SOL", 2, 0, <<"-", "4">>, <<"1">>, <<"2">>),
      Fill("SOL", FutureDay, 0, <<"4">>, <<"1">>, <<"2">>) }

TimedResponses ==
    {[kind |-> "ok", body |-> v] : v \in UNION {[1..k -> TimedFills] : k \in 0..MaxVaried}}

InitTimed ==
    /\ response \in TimedResponses
    /\ leaderboardPnl \in LeaderboardPnls
    /\ now = NowStart
    /\ ticks = 0
    /\ results = <<>>
    /\ coinPerformances = <<>>
    /\ scored = <<>>
    /\ classified = <<>>
    /\ handler = NoRequest
    /\ call = <<>>
    /\ db = NoRows
    /\ sessions = <<>>
    /\ retry = NoCall
    /\ memory = NoMemory

SpecTimed == InitTimed /\ [][Next]_vars

(***************************************************************************)
(* The score function called on metrics records: every key may be missing  *)
(* and the values reach beyond the ranges the metrics are meant to have.   *)
(***************************************************************************)
MetricKeys == {"roi_90d_pct", "max_drawdown_pct", "win_rate_pct", "copiers", "days_active"}

MetricValues(key) ==
    CASE key = "roi_90d_pct"      -> {-100, 0, 50, 100, 150}
      [] key = "max_drawdown_pct" -> {-10, 0, 20, 50, 120}
      [] key = "win_rate_pct"     -> {-20, 0, 55, 130}
      [] key = "copiers"          -> {-3, 0, 2, 10, 100, 200}
      [] key = "days_active"      -> {-73, 0, 100, 365, 400}

\* A key of a JSON object is missing (<<>>) or has a value (<<v>>).
Optional(key) == {<<>>} \cup {<<v>> : v \in MetricValues(key)}

JsonObject(fields) ==
    [k \in {key \in DOMAIN fields : fields[key] # <<>>} |-> fields[k][1]]

\* The JSON objects over the keys with values of the model.
MetricsRecords ==
    {JsonObject([roi_90d_pct |-> r, max_drawdown_pct |-> g, win_rate_pct |-> w,
                 copiers |-> c, days_active |-> a]) :
        r \in Optional("roi_90d_pct"), g \in Optional("max_drawdown_pct"),
        w \in Optional("win_rate_pct"), c \in Optional("copiers"),
        a \in Optional("days_active")}

InitScore ==
    /\ response = [kind |-> "ok", body |-> <<>>]
    /\ leaderboardPnl = 0
    /\ now = NowStart
    /\ ticks = 0
    /\ results = <<>>
    /\ coinPerformances = <<>>
    /\ scored = <<>>
    /\ classified = <<>>
    /\ handler = NoRequest
    /\ call = <<>>
    /\ db = NoRows
    /\ sessions = <<>>
    /\ retry = NoCall
    /\ memory = NoMemory

\* One call of the function per behaviour, every call being independent of
\* the calls before it: the score of an evaluation with the criteria of its
\* risk profile.
CallCalculateEvaluationScore ==
    /\ scored = <<>>
    /\ \E m \in MetricsRecords, profile \in RiskProfiles :
          scored' = <<[risk_profile |-> profile,
                       p_criteria   |-> get_default_criteria(profile),
                       p_metrics    |-> m,
                       total_score  |-> calculate_evaluation_score(
                                            m, get_default_criteria(profile))]>>
    /\ UNCHANGED <<response, leaderboardPnl, now, ticks, results, coinPerformances, classified, handler, call, db, sessions, retry, memory>>

NextScore == CallCalculateEvaluationScore

SpecScore == InitScore /\ [][NextScore]_vars

(***************************************************************************)
(* The classification called on scores: the halves from -5 to 105, which   *)
(* include the thresholds, and the hundredths next to every threshold.     *)
(***************************************************************************)
Thresholds == {40, 55, 70, 85}

Scores ==
    {Rat(k, 2) : k \in -10..210}
    \cup {Rat(t * 100 + e, 100) : t \in Thresholds, e \in {-1, 1}}

\* One call of the function per behaviour.
CallGetScoreClassification ==
    /\ classified = <<>>
    /\ \E score \in Scores :
          classified' = <<[score |-> score, out |-> GetScoreClassification(score)]>>
    /\ UNCHANGED <<response, leaderboardPnl, now, ticks, results, coinPerformances,
                   scored, handler, call, db, sessions, retry, memory>>

NextClassification == CallGetScoreClassification

SpecClassification == InitScore /\ [][NextClassification]_vars

(***************************************************************************)
(* The request handler of the edge function: it fetches the leaderboard,   *)
(* filters and cuts it, starts one asynchronous task per entry and, with   *)
(* validate=true, every task awaits the fills of its trader.  The tasks    *)
(* resume one at a time, in the order in which their fetches settle, and   *)
(* Promise.all joins them: the first task that throws rejects it.          *)
(***************************************************************************)
MaxTraders == 3

MaxValidated == 50

\* An entry of a fill array that is null.
Null == [null |-> TRUE]

\* The getPerformance that hands the parsed fields on without "|| 0".
GetPerformanceUnguarded(entry, window) ==
    LET wp    == entry.windowPerformances
        found == IF "windowPerformances" \notin DOMAIN entry THEN {}
                 ELSE {i \in 1..Len(wp) : wp[i][1] = window}
    IN  IF found = {} THEN [pnl |-> Num(0), roi |-> Num(0), vlm |-> Num(0)]
        ELSE LET perf == wp[CHOOSE i \in found : \A j \in found : i <= j]
             IN  [pnl |-> ParseFloat(perf[2].pnl),
                  roi |-> ParseFloat(perf[2].roi),
                  vlm |-> ParseFloat(perf[2].vlm)]

\* getPerformance(entry, window): windowPerformances is a list of pairs
\* <<window, performance>> whose fields are strings; find takes the first
\* pair of the window, and an entry without the list (?.) finds nothing.
GetPerformance(entry, window) ==
    LET wp    == entry.windowPerformances
        found == IF "windowPerformances" \notin DOMAIN entry THEN {}
                 ELSE {i \in 1..Len(wp) : wp[i][1] = window}
    IN  IF found = {} THEN [pnl |-> Num(0), roi |-> Num(0), vlm |-> Num(0)]
        ELSE LET perf == wp[CHOOSE i \in found : \A j \in found : i <= j]
             IN  [pnl |-> OrZero(ParseFloat(perf[2].pnl)),
                  roi |-> OrZero(ParseFloat(perf[2].roi)),
                  vlm |-> OrZero(ParseFloat(perf[2].vlm))]

WindowPerformance(pnl, roi, vlm) == [pnl |-> pnl, roi |-> roi, vlm |-> vlm]

\* A leaderboard row with its all-time window only.
Entry(address, pnl) ==
    [ethAddress |-> address,
     windowPerformances |-> <<<<"allTime", WindowPerformance(pnl, <<"1">>, <<"0">>)>>>>]

\* The rows of the leaderboard, in the order in which the upstream sends
\* them, which is not the order of their all-time pnl; a leaderboard of the
\* model is a prefix.
LeaderboardRows ==
    <<Entry("0xD", <<"0">>), Entry("0xB", <<"-", "5">>),
      Entry("0xA", <<"2", "5">>), Entry("0xC", <<"1", "0">>)>>

\* 48 opening fills and two winning fills on two more coins.
LongHistory ==
    [i \in 1..(MinTotalTrades - 2) |-> OpeningFill]
    \o <<Fill("ETH", 2, 0, <<"1", "0">>, <<"1">>, <<"5">>),
          Fill("SOL", 1, 0, <<"4">>, <<"3">>, <<"2">>)>>

ShortHistory == <<Fill("ETH", 1, 0, <<"-", "3", "0">>, <<"1">>, <<"2">>)>>

NullHistory == <<Fill("BTC", 0, 0, <<"1", "0">>, <<"1">>, <<"2">>), Null>>

\* The answers of the upstream to a userFills request of the batch, by
\* name; an answer with a status that is not ok may carry a body all the
\* same.
BatchResponses == {"long", "short", "null", "http_error", "network_error", "not_array"}

BatchResponse(name) ==
    CASE name = "long"          -> [kind |-> "ok", body |-> LongHistory]
      [] name = "short"         -> [kind |-> "ok", body |-> ShortHistory]
      [] name = "null"          -> [kind |-> "ok", body |-> NullHistory]
      [] name = "http_error"    -> [kind |-> "http_error", body |-> ShortHistory]
      [] name = "network_error" -> [kind |-> "network_error", body |-> <<>>]
      [] name = "not_array"     -> [kind |-> "not_array", body |-> <<>>]

\* The limit parameter of the requests of the batches: "1", and none.
Limits == {<<"1">>, <<>>}

\* parseInt on the strings of the model: an optional minus sign and the
\* longest prefix of decimal digits, NaN when there is no digit.
ParseInt(s) ==
    LET neg == Len(s) > 0 /\ s[1] = "-"
        v   == ParseDigits(s, IF neg THEN 2 ELSE 1, -1)
    IN  IF v < 0 THEN NaN ELSE Num(IF neg THEN -v ELSE v)

\* parseInt(url.searchParams.get("limit") || "20"): a parameter that is
\* absent or empty, both written <<>>, is read as "20".
ParseLimit(param) == ParseInt(IF param = <<>> THEN <<"2", "0">> ELSE param)

\* Math.min(a, b)
MathMin(a, b) == IF IsNaN(a) \/ IsNaN(b) THEN NaN ELSE IF NumLt(b, a) THEN b ELSE a

\* slice(0, end) for a number: NaN counts as 0, a fraction is cut off and
\* an infinity is the end of that side.
SliceTo(s, end) ==
    IF IsNaN(end) THEN <<>>
    ELSE IF end.d = 0 THEN (IF end.n > 0 THEN s ELSE <<>>)
    ELSE Slice0(s, Sign(end.n) * (Abs(end.n) \div end.d))

\* filter by the allTime performance (minPnl and minRoi at their default 0)
\* and slice(0, validate ? Math.min(limit, 50) : limit)
Filtered(rows, limit, validate) ==
    LET keep(entry) == /\ NumGe(GetPerformance(entry, "allTime").pnl, Num(0))
                       /\ NumGe(GetPerformance(entry, "allTime").roi, Num(0))
    IN  SliceTo(SelectSeq(rows, keep),
                IF validate THEN MathMin(limit, Num(MaxValidated)) ELSE limit)

\* The trader object of an entry before its validation.
Trader(entry, index) ==
    [id      |-> entry.ethAddress,
     rank    |-> index + 1,
     metrics |-> [roi_pct       |-> NumMul(GetPerformance(entry, "allTime").roi, Num(100)),
                  pnl           |-> GetPerformance(entry, "allTime").pnl,
                  roi_month_pct |-> NumMul(GetPerformance(entry, "month").roi, Num(100)),
                  pnl_month     |-> GetPerformance(entry, "month").pnl,
                  win_rate_pct  |-> Num(0),
                  drawdown_pct  |-> Num(0),
                  copiers       |-> 0]]

\* The trader object with the validation of its trader.
Validated(trader, validation) ==
    [id          |-> trader.id,
     rank        |-> trader.rank,
     metrics     |-> [trader.metrics EXCEPT !.win_rate_pct = validation.metrics.winRate,
                                            !.drawdown_pct = validation.maxDrawdown],
     validation  |-> validation,
     is_reliable |-> validation.isReliable]

\* The validation object, which carries the address it was asked for.
WithAddress(address, v) ==
    [address |-> address, isReliable |-> v.isReliable, reasons |-> v.reasons,
     maxDrawdown |-> v.maxDrawdown, topCoins |-> v.topCoins, metrics |-> v.metrics]

\* How the task of an entry ends when its fetch settles with resp at time
\* t: reading f.time of an entry that is null throws.  The numbers that
\* ParseFloat reads are whole, and n is the whole number.
TaskSettles(entry, index, resp, t) ==
    LET fills == GetUserFills(resp, FillsLimit)
        pnl   == GetPerformance(entry, "allTime").pnl.n
    IN  IF \E k \in 1..Len(fills) : fills[k] = Null
        THEN [state |-> "rejected", at |-> t]
        ELSE [state  |-> "fulfilled", at |-> t,
              trader |-> Validated(Trader(entry, index),
                                   WithAddress(entry.ethAddress,
                                               ValidateFills(fills, pnl, t)))]

\* The comparator without its two tests of is_reliable.
TraderBeforeByPnl(a, b) == NumLt(NumSub(b.metrics.pnl, a.metrics.pnl), Num(0))

\* The comparator of the final sort is negative: a goes before b.
TraderBefore(a, b) ==
    IF a.is_reliable /\ ~b.is_reliable THEN TRUE
    ELSE IF ~a.is_reliable /\ b.is_reliable THEN FALSE
    ELSE NumLt(NumSub(b.metrics.pnl, a.metrics.pnl), Num(0))

\* Stable insertion into a sorted list: x goes behind every element that
\* does not sort after it.
InsertTrader(sorted, x) ==
    IF sorted = <<>> \/ ~TraderBefore(x, sorted[Len(sorted)]) THEN Append(sorted, x)
    ELSE LET p == Cardinality({i \in 1..Len(sorted) : ~TraderBefore(x, sorted[i])})
         IN  SubSeq(sorted, 1, p) \o <<x>> \o SubSeq(sorted, p + 1, Len(sorted))

RECURSIVE SortTradersLoop(_, _, _)
SortTradersLoop(s, i, st) ==
    IF i > Len(s) THEN st
    ELSE LET next == InsertTrader(st, s[i])
         IN  IF Evaluated(next) THEN SortTradersLoop(s, i + 1, next) ELSE next

\* traders.sort(...): a stable sort in place.
SortTraders(s) == SortTradersLoop(s, 1, <<>>)

\* The response of the try block.
SuccessReply(traders, validate) ==
    [status |-> 200, success |-> TRUE, count |-> Len(traders),
     validated |-> validate, traders |-> traders]

\* The response of the catch block.
ErrorReply == [status |-> 500, success |-> FALSE]

Pending == [state |-> "pending"]

\* The requests of the model: the parameters, what the leaderboard request
\* will answer and which answer the upstream will give for each trader that
\* is validated.
RequestsWith(v, l, n) ==
    LET rows == SubSeq(LeaderboardRows, 1, n)
        asked == IF v THEN Len(Filtered(rows, ParseLimit(l), v)) ELSE 0
    IN  {[pc |-> "fetchLeaderboard", validate |-> v, limit |-> l,
          leaderboard |-> [kind |-> "ok", rows |-> rows],
          upstream |-> u] : u \in [1..asked -> BatchResponses]}

Requests ==
    UNION {RequestsWith(v, l, n) : v \in BOOLEAN, l \in Limits, n \in 0..MaxTraders}
    \cup {[pc |-> "fetchLeaderboard", validate |-> v, limit |-> l,
           leaderboard |-> [kind |-> "http_error", rows |-> <<>>],
           upstream |-> <<>>] : v \in BOOLEAN, l \in Limits}

InitBatch ==
    /\ response = [kind |-> "ok", body |-> <<>>]
    /\ leaderboardPnl = 0
    /\ now = NowStart
    /\ ticks = 0
    /\ results = <<>>
    /\ coinPerformances = <<>>
    /\ scored = <<>>
    /\ classified = <<>>
    /\ handler \in Requests
    /\ call = <<>>
    /\ db = NoRows
    /\ sessions = <<>>
    /\ retry = NoCall
    /\ memory = NoMemory

\* The leaderboard request settles: fetchLeaderboard throws on a status
\* that is not ok; otherwise the rows are filtered and cut and every task
\* runs up to its first await.  Without validate no task awaits anything
\* and Promise.all resolves at once, as it does for an empty batch.
LeaderboardSettles ==
    /\ handler.pc = "fetchLeaderboard"
    /\ LET filtered == Filtered(handler.leaderboard.rows, ParseLimit(handler.limit),
                                handler.validate)
           traders  == [i \in 1..Len(filtered) |-> Trader(filtered[i], i - 1)]
       IN  handler' =
             IF handler.leaderboard.kind # "ok"
             THEN [handler EXCEPT !.pc = "replied"]
                  @@ [receivedAt |-> now, filtered |-> <<>>, tasks |-> <<>>,
                      reply |-> ErrorReply]
             ELSE IF ~handler.validate \/ filtered = <<>>
             THEN [handler EXCEPT !.pc = "replied"]
                  @@ [receivedAt |-> now, filtered |-> filtered,
                      tasks |-> [i \in 1..Len(filtered) |->
                                   [state |-> "fulfilled", at |-> now, trader |-> traders[i]]],
                      reply |-> SuccessReply(IF handler.validate THEN SortTraders(traders)
                                             ELSE traders, handler.validate)]
             ELSE [handler EXCEPT !.pc = "awaiting"]
                  @@ [receivedAt |-> now, filtered |-> filtered,
                      tasks |-> [i \in 1..Len(filtered) |-> Pending]]
    /\ UNCHANGED <<response, leaderboardPnl, now, ticks, results, coinPerformances,
                   scored, classified, call, db, sessions, retry, memory>>

\* The fetch of task i settles and the task runs to its end.  If it throws
\* while Promise.all is awaited, the catch block answers; if it was the
\* last task to finish, the traders are sorted and the try block answers.
\* A task that is still running after the answer finishes unobserved.
FetchSettles(i) ==
    /\ handler.pc \in {"awaiting", "replied"}
    /\ i \in 1..Len(handler.filtered)
    /\ handler.tasks[i] = Pending
    /\ \E task \in {TaskSettles(handler.filtered[i], i - 1,
                                  BatchResponse(handler.upstream[i]), now)} :
          LET tasks == [handler.tasks EXCEPT ![i] = task]
              done  == \A k \in 1..Len(tasks) : tasks[k].state = "fulfilled"
          IN  handler' =
                IF handler.pc = "awaiting" /\ task.state = "rejected"
                THEN [handler EXCEPT !.tasks = tasks, !.pc = "replied"]
                     @@ [reply |-> ErrorReply]
                ELSE IF handler.pc = "awaiting" /\ done
                THEN [handler EXCEPT !.tasks = tasks, !.pc = "replied"]
                     @@ [reply |-> SuccessReply(
                                       SortTraders([k \in 1..Len(tasks) |-> tasks[k].trader]),
                                       handler.validate)]
                ELSE [handler EXCEPT !.tasks = tasks]
    /\ UNCHANGED <<response, leaderboardPnl, now, ticks, results, coinPerformances,
                   scored, classified, call, db, sessions, retry, memory>>

NextBatch == Tick \/ LeaderboardSettles \/ \E i \in 1..MaxTraders : FetchSettles(i)

SpecBatch == InitBatch /\ [][NextBatch]_vars

(***************************************************************************)
(* Calls of the pure functions: getPerformance of the edge function, the   *)
(* cut of the leaderboard, fetchHyperliquidTraders of the frontend service *)
(* and calculateTraderScore and getRiskProfile of the traders page.  A     *)
(* behaviour makes one call; call keeps its arguments and its result.      *)
(***************************************************************************)
InitCall ==
    /\ response = [kind |-> "ok", body |-> <<>>]
    /\ leaderboardPnl = 0
    /\ now = NowStart
    /\ ticks = 0
    /\ results = <<>>
    /\ coinPerformances = <<>>
    /\ scored = <<>>
    /\ classified = <<>>
    /\ handler = NoRequest
    /\ call = <<>>
    /\ db = NoRows
    /\ sessions = <<>>
    /\ retry = NoCall
    /\ memory = NoMemory

\* The longest windowPerformances list of the model.
MaxWindows == 2

\* The strings of a field of a window: numbers, a text that is no number
\* and a field that is missing.
FieldSamples == {<<"2", "5">>, <<"-", "5">>, <<"x">>, <<>>}

PerformanceSamples ==
    {WindowPerformance(pnl, f, f) : pnl \in FieldSamples, f \in {<<"1">>, <<"x">>}}

WindowNames == {"allTime", "month"}

\* The entries: without windowPerformances, and with every list of up to
\* MaxWindows pairs, also lists that name a window twice.
PerformanceEntries ==
    {[ethAddress |-> "0xA"]} \cup
    {[ethAddress |-> "0xA", windowPerformances |-> wp] :
        wp \in UNION {[1..k -> {<<w, perf>> : w \in WindowNames, perf \in PerformanceSamples}] :
                         k \in 0..MaxWindows}}

CallGetPerformance ==
    /\ call = <<>>
    /\ \E entry \in PerformanceEntries, window \in WindowNames \cup {"week"} :
          call' = <<[fn |-> "getPerformance", entry |-> entry, window |-> window,
                     out |-> GetPerformance(entry, window)]>>
    /\ UNCHANGED <<response, leaderboardPnl, now, ticks, results, coinPerformances, scored,
                   classified, handler, db, sessions, retry, memory>>

NextPerformance == CallGetPerformance

SpecPerformance == InitCall /\ [][NextPerformance]_vars

\* The longest leaderboard of the calls of the cut: longer than the cap of
\* the validated requests by more than the rows a negative limit drops.
MaxRows == MaxValidated + 3

\* The limit parameter of the calls of the cut: none, numbers below, at and
\* above the cap, zero, negative numbers and texts that are no number.
LimitParams ==
    {<<>>, <<"0">>, <<"1">>, <<"5", "0">>, <<"5", "1">>, <<"1", "0", "0">>,
     <<"-", "1">>, <<"-", "2">>, <<"a", "b", "c">>, <<"5", "x">>}

\* A leaderboard of n rows that all pass the filter.
Leaderboard(n) == [i \in 1..n |-> Entry("0xA", <<"1">>)]

\* The filter and the cut of the handler, as far as the tasks it starts.
CallFiltered ==
    /\ call = <<>>
    /\ \E param \in LimitParams, n \in 0..MaxRows, validate \in BOOLEAN :
          call' = <<[fn |-> "filtered", limit |-> param, rows |-> n, validate |-> validate,
                     out |-> Len(Filtered(Leaderboard(n), ParseLimit(param), validate))]>>
    /\ UNCHANGED <<response, leaderboardPnl, now, ticks, results, coinPerformances, scored,
                   classified, handler, db, sessions, retry, memory>>

NextFiltered == CallFiltered

SpecFiltered == InitCall /\ [][NextFiltered]_vars

(***************************************************************************)
(* The table evaluations with its trigger trg_evaluations_auto_score, and  *)
(* the statements of the frontend on it: createEvaluation inserts a row    *)
(* and updateEvaluation updates columns of a row; neither names the column *)
(* total_score.  A row of the model has the columns the trigger reads.     *)
(***************************************************************************)
MaxEvaluations == 2

\* The metrics of the statements: the example of the schema, a second
\* snapshot of the same trader, and the default '{}' of the column.
EvaluationMetrics ==
    { [roi_90d_pct |-> 45, max_drawdown_pct |-> 15, win_rate_pct |-> 60,
       copiers |-> 100, days_active |-> 180],
      [roi_90d_pct |-> 10, max_drawdown_pct |-> 40, win_rate_pct |-> 50,
       copiers |-> 10, days_active |-> 365],
      <<>> }

\* auto_calculate_score(): the BEFORE INSERT OR UPDATE row trigger, from
\* the row NEW of the statement to the row that is stored.
auto_calculate_score(new) ==
    IF new.total_score = Null
    THEN [new EXCEPT !.total_score =
                        calculate_evaluation_score(new.metrics, new.selection_criteria)]
    ELSE new

\* createEvaluation: INSERT without total_score, so the row NEW has the
\* default NULL of the column.
InsertEvaluation ==
    /\ Len(db.evaluations) < MaxEvaluations
    /\ \E metrics \in EvaluationMetrics, profile \in RiskProfiles :
          LET new == [risk_profile       |-> profile,
                      selection_criteria |-> get_default_criteria(profile),
                      metrics            |-> metrics,
                      total_score        |-> Null]
          IN  db' = [db EXCEPT !.evaluations = Append(@, auto_calculate_score(new))]
    /\ UNCHANGED <<response, leaderboardPnl, now, ticks, results, coinPerformances, scored,
                   classified, handler, call, sessions, retry, memory>>

\* updateEvaluation with new metrics: UPDATE ... SET metrics = ... WHERE
\* id = ...; the row NEW is the row OLD with the columns of the SET clause
\* replaced.
UpdateEvaluation ==
    /\ \E id \in 1..Len(db.evaluations), metrics \in EvaluationMetrics :
          LET old == db.evaluations[id]
              new == [old EXCEPT !.metrics = metrics]
          IN  db' = [db EXCEPT !.evaluations[id] = auto_calculate_score(new)]
    /\ UNCHANGED <<response, leaderboardPnl, now, ticks, results, coinPerformances, scored,
                   classified, handler, call, sessions, retry, memory>>

NextEvaluations == InsertEvaluation \/ UpdateEvaluation

SpecEvaluations == InitCall /\ [][NextEvaluations]_vars

(***************************************************************************)
(* fetchHyperliquidTraders of the frontend service: it asks the edge       *)
(* function with its options and returns the traders of the reply.         *)
(***************************************************************************)
\* The answers of the upstream with which every task of a batch finishes.
SettlingResponses == {"long", "short", "http_error", "network_error", "not_array"}

\* The time at which the edge function serves the requests of the service.
ServedAt == Time(NowStart.d + 1, NowStart.ms)

\* The replies of the edge function to a request with the parameters limit
\* and validate: the reply of the catch block, and for every leaderboard and
\* all fills of its traders the reply of the try block.
EdgeReplies(limit, validate) ==
    {ErrorReply} \cup
    UNION { LET filtered == Filtered(SubSeq(LeaderboardRows, 1, n), ParseLimit(limit), validate)
            IN  IF validate
                THEN {SuccessReply(SortTraders(
                          [i \in 1..Len(filtered) |->
                              TaskSettles(filtered[i], i - 1, BatchResponse(u[i]),
                                          ServedAt).trader]), validate) :
                         u \in [1..Len(filtered) -> SettlingResponses]}
                ELSE {SuccessReply([i \in 1..Len(filtered) |-> Trader(filtered[i], i - 1)],
                                   validate)} :
            n \in 0..Len(LeaderboardRows) }

\* The options of the calls, after the defaults have been filled in.
FetchOptions ==
    [limit : {<<"1">>, <<"2">>, <<"2", "0">>}, validate : BOOLEAN, onlyReliable : BOOLEAN]

\* t.is_reliable is truthy: the trader has the property and it is true.
IsReliable(t) == "is_reliable" \in DOMAIN t /\ t.is_reliable

\* fetchHyperliquidTraders(options) when the edge function answers data.
FetchHyperliquidTraders(options, data) ==
    IF ~data.success THEN [thrown |-> TRUE]
    ELSE [thrown  |-> FALSE,
          traders |-> IF options.onlyReliable /\ options.validate
                      THEN SelectSeq(data.traders, IsReliable)
                      ELSE data.traders]

CallFetchHyperliquidTraders ==
    /\ call = <<>>
    /\ \E options \in FetchOptions :
          \E data \in EdgeReplies(options.limit, options.validate) :
              call' = <<[fn |-> "fetchHyperliquidTraders", options |-> options,
                         data |-> data, out |-> FetchHyperliquidTraders(options, data)]>>
    /\ UNCHANGED <<response, leaderboardPnl, now, ticks, results, coinPerformances, scored,
                   classified, handler, db, sessions, retry, memory>>

NextFetchTraders == CallFetchHyperliquidTraders

SpecFetchTraders == InitCall /\ [][NextFetchTraders]_vars

(***************************************************************************)
(* find_or_create_trader called from concurrent database sessions.  Every  *)
(* call is one transaction at the default isolation level READ COMMITTED:  *)
(* its SELECT sees the rows that are committed when the statement starts   *)
(* and the rows of its own transaction, its INSERT is visible to the       *)
(* others once the transaction has committed, which is when the call       *)
(* returns.  The table has no unique constraint on display_name.           *)
(***************************************************************************)
MaxSessions == 2

DisplayNames == {"alice", "bob"}

\* A row of traders: committed tells whether the transaction that inserted
\* it, the one of session owner, has committed.
TraderRow(id, display_name, owner, committed) ==
    [id |-> id, display_name |-> display_name, owner |-> owner, committed |-> committed]

\* The table at the start: empty, or with a row for one of the names.
InitialTraders ==
    {<<>>} \cup {<<TraderRow(1, name, 0, TRUE)>> : name \in DisplayNames}

\* The sessions: each is about to call the function with a display name
\* (p_binance_url and p_style are NULL).
InitialSessions ==
    UNION {[1..k -> {[pc |-> "select", p_display_name |-> name, v_trader_id |-> Null] :
                        name \in DisplayNames}] : k \in 1..MaxSessions}

InitSessions ==
    /\ response = [kind |-> "ok", body |-> <<>>]
    /\ leaderboardPnl = 0
    /\ now = NowStart
    /\ ticks = 0
    /\ results = <<>>
    /\ coinPerformances = <<>>
    /\ scored = <<>>
    /\ classified = <<>>
    /\ handler = NoRequest
    /\ call = <<>>
    /\ db \in {[traders |-> t, evaluations |-> <<>>] : t \in InitialTraders}
    /\ sessions \in InitialSessions
    /\ retry = NoCall
    /\ memory = NoMemory

\* The rows session s sees.
Visible(s) ==
    {i \in 1..Len(db.traders) : db.traders[i].committed \/ db.traders[i].owner = s}

\* SELECT id INTO v_trader_id FROM traders WHERE display_name =
\* p_display_name LIMIT 1: any one of the matching rows, NULL without one;
\* then the test IF v_trader_id IS NULL.
SelectTrader(s) ==
    /\ sessions[s].pc = "select"
    /\ LET matching == {i \in Visible(s) :
                           db.traders[i].display_name = sessions[s].p_display_name}
       IN  IF matching = {}
           THEN sessions' = [sessions EXCEPT ![s].pc = "insert"]
           ELSE \E i \in matching :
                   sessions' = [sessions EXCEPT ![s].pc = "return",
                                                ![s].v_trader_id = db.traders[i].id]
    /\ UNCHANGED <<response, leaderboardPnl, now, ticks, results, coinPerformances, scored,
                   classified, handler, call, db, retry, memory>>

\* INSERT INTO traders ... RETURNING id INTO v_trader_id, with a new id.
CreateTrader(s) ==
    /\ sessions[s].pc = "insert"
    /\ LET id == Len(db.traders) + 1
       IN  /\ db' = [db EXCEPT !.traders =
                        Append(@, TraderRow(id, sessions[s].p_display_name, s, FALSE))]
           /\ sessions' = [sessions EXCEPT ![s].pc = "return", ![s].v_trader_id = id]
    /\ UNCHANGED <<response, leaderboardPnl, now, ticks, results, coinPerformances, scored,
                   classified, handler, call, retry, memory>>

\* RETURN v_trader_id: the call returns and its transaction commits.
ReturnTrader(s) ==
    /\ sessions[s].pc = "return"
    /\ sessions' = [sessions EXCEPT ![s].pc = "done"]
    /\ db' = [db EXCEPT !.traders =
                [i \in 1..Len(@) |-> IF @[i].owner = s
                                     THEN [@[i] EXCEPT !.committed = TRUE] ELSE @[i]]]
    /\ UNCHANGED <<response, leaderboardPnl, now, ticks, results, coinPerformances, scored,
                   classified, handler, call, retry, memory>>

NextSessions ==
    \E s \in 1..MaxSessions :
        /\ s \in 1..Len(sessions)
        /\ (SelectTrader(s) \/ CreateTrader(s) \/ ReturnTrader(s))

SpecSessions == InitSessions /\ [][NextSessions]_vars

(***************************************************************************)
(* fetchWithRetry of the coin-report function.  The function runs from one *)
(* await to the next: it issues a request and awaits it; when the request  *)
(* settles it returns, throws or starts a timer and awaits that; when the  *)
(* timer fires it goes round the loop.  retry keeps the position of the    *)
(* call, its variables, the responses so far and the time it has slept.    *)
(***************************************************************************)
\* The largest maxRetries of the model; the coin-report handler passes 3.
MaxRetries == 3

\* How a request settles: with the status of a response, or rejected (the
\* network failed).
Statuses == {200, 400, 429, 500, 503}

Rejected == 0

\* Math.random() * 1000 of the delay, in whole milliseconds.
Jitters == {0, 999}

\* The loop test attempt <= maxRetries and what follows it: the next
\* request is issued, or the loop ends and the function throws.
LoopTest(r) ==
    IF r.attempt <= r.maxRetries
    THEN [r EXCEPT !.pc = "fetch", !.requests = @ + 1]
    ELSE [r EXCEPT !.pc = "threw", !.error = "Max retries exceeded"]

InitRetry ==
    /\ response = [kind |-> "ok", body |-> <<>>]
    /\ leaderboardPnl = 0
    /\ now = NowStart
    /\ ticks = 0
    /\ results = <<>>
    /\ coinPerformances = <<>>
    /\ scored = <<>>
    /\ classified = <<>>
    /\ handler = NoRequest
    /\ call = <<>>
    /\ db = NoRows
    /\ sessions = <<>>
    /\ retry \in {[pc |-> "called", maxRetries |-> m, attempt |-> 0, requests |-> 0,
                   settled |-> <<>>, slept |-> 0, error |-> ""] : m \in 0..MaxRetries}
    /\ memory = NoMemory

\* The call starts: attempt = 0, the loop test, the first request.
EnterFetchWithRetry ==
    /\ retry.pc = "called"
    /\ retry' = LoopTest(retry)
    /\ UNCHANGED <<response, leaderboardPnl, now, ticks, results, coinPerformances, scored,
                   classified, handler, call, db, sessions, memory>>

\* The retry test that goes on after the last attempt as well.
ShouldRetryAlways(status, attempt, maxRetries) == status = 429 /\ attempt <= maxRetries

\* response.status === 429 && attempt < maxRetries
ShouldRetry(status, attempt, maxRetries) == status = 429 /\ attempt < maxRetries

\* The awaited request settles.  A rejection leaves the function through
\* the await; a 429 with retries left starts the timer of the backoff;
\* every other response is returned.
RequestSettles ==
    /\ retry.pc = "fetch"
    /\ \E outcome \in Statuses \cup {Rejected}, jitter \in Jitters :
          LET settled == Append(retry.settled, outcome)
          IN  retry' =
                IF outcome = Rejected
                THEN [retry EXCEPT !.pc = "threw", !.settled = settled,
                                   !.error = "fetch failed"]
                ELSE IF ShouldRetry(outcome, retry.attempt, retry.maxRetries)
                THEN [retry EXCEPT !.pc = "sleep", !.settled = settled,
                                   !.slept = @ + 2 ^ (retry.attempt + 1) * 1000 + jitter]
                ELSE [retry EXCEPT !.pc = "returned", !.settled = settled]
    /\ UNCHANGED <<response, leaderboardPnl, now, ticks, results, coinPerformances, scored,
                   classified, handler, call, db, sessions, memory>>

\* The timer fires: continue, attempt++, the loop test.
TimerFires ==
    /\ retry.pc = "sleep"
    /\ retry' = LoopTest([retry EXCEPT !.attempt = @ + 1])
    /\ UNCHANGED <<response, leaderboardPnl, now, ticks, results, coinPerformances, scored,
                   classified, handler, call, db, sessions, memory>>

NextRetry == EnterFetchWithRetry \/ RequestSettles \/ TimerFires

SpecRetry == InitRetry /\ [][NextRetry]_vars

\* Every request settles and every timer fires.
SpecRetryFair == SpecRetry /\ WF_vars(NextRetry)

(***************************************************************************)
(* calculateTraderScore and getRiskProfile of the traders page.  The       *)
(* metrics of a trader are a JSON object: a function from the keys it has  *)
(* to their values; the numbers of the model are whole.                    *)
(***************************************************************************)
\* (metrics.key as number) ?? default: the default for a key that is missing
Nullish(metrics, key, default) == IF key \in DOMAIN metrics THEN metrics[key] ELSE default

\* metrics.key || default: the default also for the value 0
Falsy(metrics, key, default) ==
    IF key \in DOMAIN metrics /\ metrics[key] # 0 THEN metrics[key] ELSE default

RoiPoints(roi) ==
    IF roi >= 50 /\ roi < 200 THEN 25
    ELSE IF roi >= 20 /\ roi < 50 THEN 20
    ELSE IF roi >= 10 THEN 15
    ELSE IF roi > 0 THEN 5
    ELSE 0

DrawdownPoints(dd) ==
    IF dd < 10 THEN 25 ELSE IF dd < 20 THEN 20 ELSE IF dd < 30 THEN 10
    ELSE IF dd < 40 THEN 5 ELSE 0

WinRatePoints(wr) == IF wr > 60 THEN 20 ELSE IF wr > 50 THEN 15 ELSE IF wr > 40 THEN 10 ELSE 0

CopiersPoints(copiers) ==
    IF copiers >= 100 THEN 15 ELSE IF copiers >= 50 THEN 10 ELSE IF copiers >= 10 THEN 5 ELSE 0

VolumePoints(aum, volume) ==
    IF aum >= 100000 \/ volume >= 1000000 THEN 15
    ELSE IF aum >= 10000 \/ volume >= 100000 THEN 10
    ELSE IF aum >= 1000 \/ volume >= 10000 THEN 5
    ELSE 0

\* The points of the additional metrics: verified, trades, days and pnl.
AdditionalPoints(isReliable, trades, days, pnl) ==
    (IF isReliable THEN 10 ELSE 0) + (IF trades >= 50 THEN 5 ELSE 0)
    + (IF days >= 30 THEN 5 ELSE 0) + (IF pnl > 10000 THEN 5 ELSE 0)

\* calculateTraderScore(trader).score; a trader without latest_metrics is
\* written as the metrics NoMetrics.
NoMetrics == [none |-> TRUE]

CalculateTraderScore(metrics) ==
    IF metrics = NoMetrics THEN 0
    ELSE RoiPoints(Nullish(metrics, "roi_30d_pct", 0))
         + DrawdownPoints(Nullish(metrics, "max_drawdown_pct", 100))
         + WinRatePoints(Nullish(metrics, "win_rate_pct", 0))
         + CopiersPoints(Nullish(metrics, "copiers", 0))
         + VolumePoints(Nullish(metrics, "aum", 0), Nullish(metrics, "volume", 0))
         + AdditionalPoints(Nullish(metrics, "is_reliable", FALSE),
                            Nullish(metrics, "total_trades", 0),
                            Nullish(metrics, "days_active", 0),
                            Nullish(metrics, "pnl", 0))

\* A key that is missing or has one of the values.
Maybe(values) == {<<>>} \cup {<<v>> : v \in values}

\* The latest_metrics of the traders that are scored.
ScoredMetrics ==
    {NoMetrics} \cup
    {JsonObject([roi_30d_pct |-> roi, max_drawdown_pct |-> dd, win_rate_pct |-> wr,
                 copiers |-> copiers, aum |-> aum, volume |-> volume,
                 is_reliable |-> rel, total_trades |-> trades, days_active |-> days,
                 pnl |-> pnl]) :
        roi \in Maybe({-5, 5, 10, 20, 50, 200}), dd \in Maybe({5, 15, 25, 35, 45}),
        wr \in Maybe({45, 55, 65}), copiers \in Maybe({10, 50, 100}),
        aum \in Maybe({1000, 100000}), volume \in Maybe({100000}),
        rel \in Maybe({TRUE}), trades \in Maybe({50}), days \in Maybe({30}),
        pnl \in Maybe({10001})}

CallCalculateTraderScore ==
    /\ call = <<>>
    /\ \E metrics \in ScoredMetrics :
          call' = <<[fn |-> "calculateTraderScore", metrics |-> metrics,
                     out |-> CalculateTraderScore(metrics)]>>
    /\ UNCHANGED <<response, leaderboardPnl, now, ticks, results, coinPerformances, scored,
                   classified, handler, db, sessions, retry, memory>>

NextTraderScore == CallCalculateTraderScore

SpecTraderScore == InitCall /\ [][NextTraderScore]_vars

RiskLevel(level, color, bg) == [level |-> level, color |-> color, bg |-> bg]

\* getRiskProfile(metrics)
GetRiskProfile(metrics) ==
    IF metrics = NoMetrics THEN RiskLevel("sin datos", "text-text-tertiary", "bg-gray-500/20")
    ELSE LET dd  == Falsy(metrics, "max_drawdown_pct", 0)
             wr  == Falsy(metrics, "win_rate_pct", 50)
             roi == Falsy(metrics, "roi_30d_pct", 0)
         IN  IF dd > 35 \/ wr < 35 \/ (dd > 25 /\ wr < 45)
             THEN RiskLevel("peligroso", "text-red-400", "bg-red-500/20")
             ELSE IF dd > 25 \/ roi > 100 \/ (wr >= 35 /\ wr < 45)
             THEN RiskLevel("agresivo", "text-orange-400", "bg-orange-500/20")
             ELSE IF dd < 15 /\ wr > 55 /\ roi >= 0 /\ roi <= 50
             THEN RiskLevel("conservador", "text-green-400", "bg-green-500/20")
             ELSE RiskLevel("moderado", "text-yellow-400", "bg-yellow-500/20")

\* The metrics of the traders that are classified: values on both sides of
\* every limit of the function, the value 0 and missing keys.
ClassifiedMetrics ==
    {NoMetrics} \cup
    {JsonObject([roi_30d_pct |-> roi, max_drawdown_pct |-> dd, win_rate_pct |-> wr]) :
        roi \in Maybe({-10, 0, 30, 50, 51, 100, 101}),
        dd  \in Maybe({0, 10, 14, 15, 25, 26, 35, 36, 50}),
        wr  \in Maybe({0, 20, 34, 35, 44, 45, 50, 55, 56, 70})}

CallGetRiskProfile ==
    /\ call = <<>>
    /\ \E metrics \in ClassifiedMetrics :
          call' = <<[fn |-> "getRiskProfile", metrics |-> metrics,
                     out |-> GetRiskProfile(metrics)]>>
    /\ UNCHANGED <<response, leaderboardPnl, now, ticks, results, coinPerformances, scored,
                   classified, handler, db, sessions, retry, memory>>

NextRiskProfile == CallGetRiskProfile

SpecRiskProfile == InitCall /\ [][NextRiskProfile]_vars

(***************************************************************************)
(* validateTrader on the memory of the edge function.  An array is a       *)
(* sequence of references to objects, a reference is the index of its      *)
(* target, and a variable of the code that holds an array holds the        *)
(* reference of the array.  Arrays of numbers, of coins and of coin        *)
(* statistics hold no fill and are written as values.                      *)
(***************************************************************************)
\* A new array with the elements refs.
Alloc(mem, refs) ==
    [mem |-> [mem EXCEPT !.arrays = Append(@, refs)], ref |-> Len(mem.arrays) + 1]

\* The fills an array holds, in its order, with the values of their fields.
Deref(mem, array) ==
    [i \in 1..Len(mem.arrays[array]) |-> mem.objects[mem.arrays[array][i]]]

\* response.json(): one new object for every fill of the body and a new
\* array of them.
ParseJson(mem, body) ==
    Alloc([mem EXCEPT !.objects = @ \o body],
          [i \in 1..Len(body) |-> Len(mem.objects) + i])

\* fills.slice(0, limit): a new array of the same objects.
ArraySlice(mem, array, limit) == Alloc(mem, Slice0(mem.arrays[array], limit))

\* getUserFills reading the response on the memory.
HeapGetUserFills(mem, resp, limit) ==
    IF resp.kind = "ok"
    THEN LET fills == ParseJson(mem, resp.body) IN ArraySlice(fills.mem, fills.ref, limit)
    ELSE Alloc(mem, <<>>)

\* fills.filter((f) => parseFloat(f.closedPnl) !== 0): a new array
HeapClosedTrades(mem, array) ==
    LET closed(r) == NumNotZero(ParseFloat(mem.objects[r].closedPnl))
    IN  Alloc(mem, SelectSeq(mem.arrays[array], closed))

\* closedTrades.filter((f) => parseFloat(f.closedPnl) > 0): a new array
HeapWins(mem, array) ==
    LET win(r) == NumGt(ParseFloat(mem.objects[r].closedPnl), Num(0))
    IN  Alloc(mem, SelectSeq(mem.arrays[array], win))

\* sortedFills = fills: the sort is handed the array of the caller.
SpreadAlias(mem, array) == [mem |-> mem, ref |-> array]

\* [...fills]: a new array of the same objects.
Spread(mem, array) == Alloc(mem, mem.arrays[array])

\* array.sort((a, b) => a.time - b.time): the array itself is reordered.
SortInPlace(mem, array) ==
    LET keyed  == [i \in 1..Len(mem.arrays[array]) |->
                      [ref |-> mem.arrays[array][i],
                       time |-> mem.objects[mem.arrays[array][i]].time]]
        sorted == SortByTime(keyed)
    IN  [mem EXCEPT !.arrays[array] = [i \in 1..Len(sorted) |-> sorted[i].ref]]

\* calculateMaxDrawdown(fills) on the memory.
HeapCalculateMaxDrawdown(mem, fills) ==
    IF Len(mem.arrays[fills]) = 0 THEN [mem |-> mem, out |-> Num(0)]
    ELSE LET copy   == Spread(mem, fills)
             sorted == SortInPlace(copy.mem, copy.ref)
         IN  [mem |-> sorted,
              out |-> DrawdownLoop(Deref(sorted, copy.ref), 1,
                                   [cumulativePnl |-> Num(0), peak |-> Num(0),
                                    maxDrawdown |-> Num(0), divisions |-> 0]).maxDrawdown]

\* calculateTopCoins(fills, limit) on the memory: it reads the fills and
\* sorts an array of statistics it has built itself.
HeapCalculateTopCoins(mem, fills, limit) ==
    [mem |-> mem, out |-> CalculateTopCoins(Deref(mem, fills), limit)]

\* validateTrader after getUserFills has settled with the array fills.
HeapValidateTrader(mem, fills, pnl, t) ==
    IF Len(mem.arrays[fills]) = 0 THEN [mem |-> mem, out |-> EmptyValidation]
    ELSE LET fs           == Deref(mem, fills)
             closedTrades == HeapClosedTrades(mem, fills)
             wins         == HeapWins(closedTrades.mem, closedTrades.ref)
             winRate      == IF Len(Deref(wins.mem, closedTrades.ref)) > 0
                             THEN NumMul(NumDiv(Num(Len(Deref(wins.mem, wins.ref))),
                                                Num(Len(Deref(wins.mem, closedTrades.ref)))),
                                         Num(100))
                             ELSE Num(0)
             metrics      == [accountAge      |-> AccountAge(fs, t),
                              totalTrades     |-> Len(fs),
                              winRate         |-> winRate,
                              avgTradeSize    |-> AvgTradeSize(fs),
                              largestWinPct   |-> LargestWinPct(fs, pnl),
                              diversification |-> Diversification(fs)]
             drawdown     == HeapCalculateMaxDrawdown(wins.mem, fills)
             topCoins     == HeapCalculateTopCoins(drawdown.mem, fills, TopCoinsLimit)
         IN  [mem |-> topCoins.mem,
              out |-> ApplyRules([isReliable  |-> TRUE,
                                  reasons     |-> <<>>,
                                  maxDrawdown |-> drawdown.out,
                                  topCoins    |-> topCoins.out,
                                  metrics     |-> metrics])]

\* getUserFills settles: validateTrader holds the array it was given;
\* fetched records the fills of the array at that moment.
GetUserFillsSettles ==
    /\ call = <<>>
    /\ \E resp \in TimedResponses, pnl \in LeaderboardPnls :
          \E fills \in {HeapGetUserFills(memory, resp, FillsLimit)} :
             /\ memory' = fills.mem
             /\ call' = <<[fn |-> "validateTrader", pc |-> "fetched", fills |-> fills.ref,
                           fetched |-> Deref(fills.mem, fills.ref), leaderboardPnl |-> pnl]>>
    /\ UNCHANGED <<response, leaderboardPnl, now, ticks, results, coinPerformances, scored,
                   classified, handler, db, sessions, retry>>

\* validateTrader runs from its await to its return.
ValidateTraderResumes ==
    /\ call # <<>>
    /\ call[1].fn = "validateTrader"
    /\ call[1].pc = "fetched"
    /\ \E v \in {HeapValidateTrader(memory, call[1].fills, call[1].leaderboardPnl, now)} :
          /\ memory' = v.mem
          /\ call' = <<[call[1] EXCEPT !.pc = "returned"] @@ [out |-> v.out]>>
    /\ UNCHANGED <<response, leaderboardPnl, now, ticks, results, coinPerformances, scored,
                   classified, handler, db, sessions, retry>>

NextMemory == GetUserFillsSettles \/ ValidateTraderResumes

SpecMemory == InitCall /\ [][NextMemory]_vars

(***************************************************************************)
(* Properties                                                              *)
(***************************************************************************)
\* The fills the calls of a behaviour work on.
Fetched == GetUserFills(response, FillsLimit)

Called == results # <<>>

Validation == results[1].validation

InPercentRange(x) == NumGe(x, Num(0)) /\ NumLe(x, Num(100))

\* The field is missing or no number.
Malformed(f) ==
    IsNaN(ParseFloat(f.px)) \/ IsNaN(ParseFloat(f.sz)) \/ IsNaN(ParseFloat(f.closedPnl))

\* The fill closes a position: its closedPnl is a number other than 0.
Closing(f) == ~IsNaN(ParseFloat(f.closedPnl)) /\ ParseFloat(f.closedPnl).n # 0

RemoveAt(s, i) == SubSeq(s, 1, i - 1) \o SubSeq(s, i + 1, Len(s))

IsAdvisory(reason) ==
    reason.text = "Suspiciously high win rate: ${winRate.toFixed(1)}%"

\* C1: for every sequence of fills the maximum drawdown that is returned
\* lies between 0 and 100.
C1_DrawdownWithinPercent ==
    Called => InPercentRange(Validation.maxDrawdown)

\* C2: with an empty list of fills the trader is unreliable for the single
\* reason "No trade history available", the drawdown and every metric are 0,
\* there are no top coins, and no other rule has added a reason.
C2_EmptyFills ==
    (Called /\ Fetched = <<>>) =>
        /\ Validation.isReliable = FALSE
        /\ Validation.reasons = <<[text |-> "No trade history available", args |-> <<>>]>>
        /\ Validation.maxDrawdown = Num(0)
        /\ Validation.topCoins = <<>>
        /\ Validation.metrics.accountAge = 0
        /\ Validation.metrics.totalTrades = 0
        /\ Validation.metrics.winRate = Num(0)
        /\ Validation.metrics.avgTradeSize = Num(0)
        /\ Validation.metrics.largestWinPct = Num(0)
        /\ Validation.metrics.diversification = 0

\* A call for a trader of whom the upstream knows no fill.
C2_Witness ==
    Called /\ response.kind = "ok" /\ Fetched = <<>>

\* The reasons the four rules give for the metrics m, in the order age,
\* trade count, single-trade dependency, diversification; a rule fails when
\* its metric is not within the bound.
ExpectedRuleTexts(m) ==
    (IF m.accountAge >= MinAccountAgeDays THEN <<>>
     ELSE <<"Account too new: ${accountAge} days">>)
    \o (IF m.totalTrades >= MinTotalTrades THEN <<>>
        ELSE <<"Too few trades: ${totalTrades}">>)
    \o (IF NumLe(m.largestWinPct, Num(MaxLargestWinPct)) THEN <<>>
        ELSE <<"PnL too dependent on single trade: ${largestWinPct.toFixed(1)}%">>)
    \o (IF m.diversification >= MinDiversification THEN <<>>
        ELSE <<"Low diversification: only ${diversification} coins">>)

RuleTexts(reasons) ==
    LET rules == SelectSeq(reasons, LAMBDA r : ~IsAdvisory(r))
    IN  [i \in 1..Len(rules) |-> rules[i].text]

\* C3: for a non-empty list of fills the trader is reliable exactly if
\* accountAge >= 30, totalTrades >= 50, largestWinPct <= 40 and
\* diversification >= 3, and every rule that fails gives one reason, in the
\* order age, trade count, single-trade dependency, diversification.
C3_ReliableIffFourRules ==
    (Called /\ Fetched # <<>>) =>
        LET m == Validation.metrics
        IN  /\ Validation.isReliable <=>
                  /\ m.accountAge >= MinAccountAgeDays
                  /\ m.totalTrades >= MinTotalTrades
                  /\ NumLe(m.largestWinPct, Num(MaxLargestWinPct))
                  /\ m.diversification >= MinDiversification
            /\ RuleTexts(Validation.reasons) = ExpectedRuleTexts(m)

\* C4: a win rate above 90 appends the advisory reason as the last reason
\* and nowhere else, and isReliable is what the four rules alone make it:
\* a trader that passes them stays reliable, with a non-empty list of reasons.
C4_HighWinRateAdvisoryOnly ==
    (Called /\ Fetched # <<>>) =>
        LET m    == Validation.metrics
            rs   == Validation.reasons
            high == NumGt(m.winRate, Num(MaxWinRatePct))
        IN  /\ high => Len(rs) >= 1 /\ IsAdvisory(rs[Len(rs)])
            /\ \A i \in 1..Len(rs) : IsAdvisory(rs[i]) => high /\ i = Len(rs)
            /\ Validation.isReliable <=>
                  /\ ~(m.accountAge < MinAccountAgeDays)
                  /\ ~(m.totalTrades < MinTotalTrades)
                  /\ ~NumGt(m.largestWinPct, Num(MaxLargestWinPct))
                  /\ ~(m.diversification < MinDiversification)

\* A trader that passes the four rules with a win rate above 90: reliable,
\* and the advisory reason is the only reason.
C4_Witness ==
    /\ Called
    /\ Validation.isReliable
    /\ NumGt(Validation.metrics.winRate, Num(MaxWinRatePct))
    /\ Len(Validation.reasons) = 1
    /\ Validation.metrics.accountAge = MinAccountAgeDays
    /\ Validation.metrics.totalTrades = MinTotalTrades

\* C5: a fill whose price, size or closedPnl is missing or no number is
\* dropped: the result is the result for the list without that fill.
C5_MalformedFillsDropped ==
    Called =>
        \A i \in 1..Len(Fetched) :
            Malformed(Fetched[i]) =>
                Validation = ValidateFills(RemoveAt(Fetched, i), leaderboardPnl,
                                           results[1].at)

\* C6: two evaluations of the same fills and the same leaderboard pnl give
\* the same output, whatever the wall-clock time of each call.
C6_SameInputSameOutput ==
    [][(results # <<>> /\ results' # <<>>)
          => results'[1].validation = results[1].validation]_vars

ScoreCalled == scored # <<>>

Metrics == scored[1].p_metrics

TotalScore == scored[1].total_score

\* C7: for every metrics record, negative values, values beyond 100 and
\* missing fields included, the total score lies between 0 and 100.
C7_TotalScoreWithinRange ==
    ScoreCalled => InPercentRange(TotalScore)

\* C8: the win rate of the validation and of every top coin lies between 0
\* and 100; the win rate of the validation is 0 when no fill closes a
\* position, and a coin without such a fill has no entry to divide for.
C8_WinRateWithinPercent ==
    Called =>
        /\ InPercentRange(Validation.metrics.winRate)
        /\ \A i \in 1..Len(Validation.topCoins) :
              /\ InPercentRange(Validation.topCoins[i].winRate)
              /\ \E j \in 1..Len(Fetched) :
                    Fetched[j].coin = Validation.topCoins[i].coin /\ Closing(Fetched[j])
        /\ (\A j \in 1..Len(Fetched) : ~Closing(Fetched[j]))
              => Validation.metrics.winRate = Num(0) /\ Validation.topCoins = <<>>

\* A history with wins and losses: the win rates are proper fractions.
C8_Witness ==
    /\ Called
    /\ NumGt(Validation.metrics.winRate, Num(0))
    /\ NumLt(Validation.metrics.winRate, Num(100))
    /\ \E i \in 1..Len(Validation.topCoins) :
          /\ NumGt(Validation.topCoins[i].winRate, Num(0))
          /\ NumLt(Validation.topCoins[i].winRate, Num(100))

\* Fills without a closing fill, where there is nothing to divide by.
C8_WitnessNoClosingFill ==
    /\ Called
    /\ Fetched # <<>>
    /\ \A j \in 1..Len(Fetched) : ~Closing(Fetched[j])

TopCoinsCalled == coinPerformances # <<>>

\* The instruments with at least one closing fill.
Instruments(fs) == {fs[i].coin : i \in {j \in 1..Len(fs) : Closing(fs[j])}}

ClosingFillsOf(fs, coin) == {i \in 1..Len(fs) : fs[i].coin = coin /\ Closing(fs[i])}

RECURSIVE SumOfPnl(_, _)
\* The sum of the closedPnl of the fills at the positions in the set.
SumOfPnl(fs, positions) ==
    IF positions = {} THEN 0
    ELSE LET i == CHOOSE j \in positions : TRUE
         IN  ParseFloat(fs[i].closedPnl).n + SumOfPnl(fs, positions \ {i})

\* C9: calculateTopCoins with limit N returns min(N, number of instruments
\* with a closing fill) entries of distinct instruments, in non-increasing
\* order of summed pnl, none of the omitted instruments has a larger summed
\* pnl than an entry, and each entry counts and sums the closing fills of
\* its instrument.
C9_TopCoinsRanking ==
    TopCoinsCalled =>
        LET out   == coinPerformances[1].out
            limit == coinPerformances[1].limit
            all   == Instruments(Fetched)
            shown == {out[i].coin : i \in 1..Len(out)}
        IN  /\ Len(out) = Min(limit, Cardinality(all))
            /\ Cardinality(shown) = Len(out)
            /\ shown \subseteq all
            /\ \A i \in 1..Len(out) :
                  /\ out[i].trades = Cardinality(ClosingFillsOf(Fetched, out[i].coin))
                  /\ out[i].trades >= 1
                  /\ out[i].pnl = Num(SumOfPnl(Fetched, ClosingFillsOf(Fetched, out[i].coin)))
            /\ \A i, j \in 1..Len(out) : i < j => NumGe(out[i].pnl, out[j].pnl)
            /\ \A c \in all \ shown : \A i \in 1..Len(out) :
                  SumOfPnl(Fetched, ClosingFillsOf(Fetched, c)) <= out[i].pnl.n

\* A limit below the number of instruments: the entry with the smaller pnl
\* is cut off though it comes first in the fills.
C9_Witness ==
    /\ TopCoinsCalled
    /\ coinPerformances[1].limit = 1
    /\ Cardinality(Instruments(Fetched)) = 2
    /\ Len(coinPerformances[1].out) = 1
    /\ \E i \in 1..Len(Fetched) :
          /\ Closing(Fetched[i])
          /\ \A j \in 1..(i - 1) : ~Closing(Fetched[j])
          /\ Fetched[i].coin # coinPerformances[1].out[1].coin
          /\ SumOfPnl(Fetched, ClosingFillsOf(Fetched, Fetched[i].coin))
                < coinPerformances[1].out[1].pnl.n

\* The metrics with the value of one key replaced.
WithValue(m, key, v) == [m EXCEPT ![key] = v]

\* C10: with all other metrics fixed, a larger max_drawdown_pct never gives a
\* larger total score, and a larger roi_90d_pct, up to the cap of 100, never
\* gives a smaller total score.
C10_ScoreMonotone ==
    ScoreCalled =>
        /\ "max_drawdown_pct" \in DOMAIN Metrics =>
              \A g \in MetricValues("max_drawdown_pct") :
                  g > Metrics["max_drawdown_pct"] =>
                      NumLe(CalculateEvaluationScore(WithValue(Metrics, "max_drawdown_pct", g)),
                            TotalScore)
        /\ "roi_90d_pct" \in DOMAIN Metrics =>
              \A r \in MetricValues("roi_90d_pct") :
                  (r > Metrics["roi_90d_pct"] /\ r <= RoiCap) =>
                      NumGe(CalculateEvaluationScore(WithValue(Metrics, "roi_90d_pct", r)),
                            TotalScore)

\* A record for which a larger drawdown lowers the score and a larger ROI
\* below the cap raises it.
C10_Witness ==
    /\ ScoreCalled
    /\ "max_drawdown_pct" \in DOMAIN Metrics
    /\ "roi_90d_pct" \in DOMAIN Metrics
    /\ \E g \in MetricValues("max_drawdown_pct") :
          /\ g > Metrics["max_drawdown_pct"]
          /\ NumLt(CalculateEvaluationScore(WithValue(Metrics, "max_drawdown_pct", g)),
                   TotalScore)
    /\ \E r \in MetricValues("roi_90d_pct") :
          /\ r > Metrics["roi_90d_pct"] /\ r <= RoiCap
          /\ NumGt(CalculateEvaluationScore(WithValue(Metrics, "roi_90d_pct", r)),
                   TotalScore)

\* The list with the fills at positions i and j exchanged.
Swap(s, i, j) == [s EXCEPT ![i] = s[j], ![j] = s[i]]

\* C13: calculateMaxDrawdown returns the same value for every permutation
\* of the fills, also when fills share a timestamp; stated for the
\* permutations that exchange two fills of the list.
C13_DrawdownPermutationInvariant ==
    Called =>
        \A i, j \in 1..Len(Fetched) :
            (i < j /\ Fetched[i] # Fetched[j]) =>
                CalculateMaxDrawdown(Swap(Fetched, i, j)) = Validation.maxDrawdown

RECURSIVE HighestPnlLoop(_, _, _)
\* Over the fills of s from position i on: the cumulative closedPnl (a fill
\* without a number counting 0) and the highest value it has had.
HighestPnlLoop(s, i, st) ==
    IF i > Len(s) THEN st
    ELSE LET sum  == NumAdd(st.sum, OrZero(ParseFloat(s[i].closedPnl)))
             next == [sum |-> sum, highest |-> IF i = 1 \/ NumGt(sum, st.highest)
                                               THEN sum ELSE st.highest]
         IN  IF Evaluated(next) THEN HighestPnlLoop(s, i + 1, next) ELSE next

\* The cumulative realized pnl, taken in time order, never exceeds 0.
NeverProfitable(fs) ==
    NumLe(HighestPnlLoop(SortByTime(fs), 1, [sum |-> Num(0), highest |-> Num(0)]).highest,
          Num(0))

\* C15: when the cumulative realized pnl in time order never exceeds 0, the
\* maximum drawdown is exactly 0 and the function has divided nowhere.
C15_NeverProfitableZero ==
    (Called /\ Fetched # <<>> /\ NeverProfitable(Fetched)) =>
        /\ Validation.maxDrawdown = Num(0)
        /\ DrawdownRun(Fetched).divisions = 0

\* A history that loses first and wins less afterwards: the cumulative pnl
\* moves below 0 and never gets above it.
C15_Witness ==
    /\ Called
    /\ NeverProfitable(Fetched)
    /\ \E i \in 1..Len(Fetched) : NumLt(ParseFloat(Fetched[i].closedPnl), Num(0))
    /\ \E i \in 1..Len(Fetched) : NumGt(ParseFloat(Fetched[i].closedPnl), Num(0))

\* The largest closedPnl among the fills that close a position.
MaxClosingPnl(fs) ==
    LET pnls == {ParseFloat(fs[i].closedPnl) : i \in {j \in 1..Len(fs) : Closing(fs[j])}}
    IN  CHOOSE m \in pnls : \A p \in pnls : NumGe(m, p)

\* C19: largestWinPct is max(closedPnl of the closing fills) / leaderboardPnl
\* * 100 when leaderboardPnl > 0 and a fill closes a position, and 0 otherwise.
C19_LargestWinPct ==
    (Called /\ Fetched # <<>>) =>
        Validation.metrics.largestWinPct =
            IF leaderboardPnl > 0 /\ (\E i \in 1..Len(Fetched) : Closing(Fetched[i]))
            THEN Rat(MaxClosingPnl(Fetched).n * 100, leaderboardPnl)
            ELSE Num(0)

\* The weights of the components per risk profile, in points of 100 (the
\* table "Pesos por Perfil" of the methodology).
ProfileWeights(profile) ==
    CASE profile = "conservative" ->
             [max_dd |-> 30, win_rate |-> 25, roi |-> 15, consistency |-> 20, rar |-> 10]
      [] profile = "moderate" ->
             [max_dd |-> 25, win_rate |-> 20, roi |-> 25, consistency |-> 15, rar |-> 15]
      [] profile = "aggressive" ->
             [max_dd |-> 20, win_rate |-> 15, roi |-> 30, consistency |-> 10, rar |-> 25]

\* The weight of the component that the metric of the key feeds.
WeightOf(profile, key) ==
    CASE key = "max_drawdown_pct" -> ProfileWeights(profile).max_dd
      [] key = "win_rate_pct"     -> ProfileWeights(profile).win_rate
      [] key = "roi_90d_pct"      -> ProfileWeights(profile).roi

NumAbs(x) == IF x.n < 0 THEN NumNeg(x) ELSE x

\* C16: the total score is the sum of the component scores, each between 0
\* and 100, weighted with the weights of the risk profile of the evaluation.
\* A component then contributes between 0 and its weight, so changing the
\* metric of one component alone, within 0..100, changes the total score by
\* no more than the weight the profile gives that component (and one
\* hundredth for the rounding of the two totals).
C16_ProfileWeights ==
    ScoreCalled =>
        \A key \in {"max_drawdown_pct", "win_rate_pct", "roi_90d_pct"} :
            (key \in DOMAIN Metrics /\ Metrics[key] \in 0..100) =>
                \A v \in MetricValues(key) \cap (0..100) :
                    NumLe(NumAbs(NumSub(calculate_evaluation_score(
                                            WithValue(Metrics, key, v), scored[1].p_criteria),
                                        TotalScore)),
                          NumAdd(Num(WeightOf(scored[1].risk_profile, key)), Rat(1, 100)))

\* C17: the drawdown component never rises with max_drawdown_pct and is 0
\* for a drawdown at or above the limit of the risk profile of the
\* evaluation (max_drawdown_pct_lte: 10, 20, 35).
C17_DrawdownScoreZeroAtLimit ==
    ScoreCalled =>
        LET v_max_drawdown == Coalesce(Metrics, "max_drawdown_pct", 100)
            limit          == Num(scored[1].p_criteria.max_drawdown_pct_lte)
        IN  /\ NumGe(v_max_drawdown, limit) => DrawdownScore(v_max_drawdown) = Num(0)
            /\ \A g \in MetricValues("max_drawdown_pct") :
                  NumGt(Num(g), v_max_drawdown) =>
                      NumLe(DrawdownScore(Num(g)), DrawdownScore(v_max_drawdown))

ClassificationCalled == classified # <<>>

\* The labels from the worst to the best.
Rank(label) ==
    CASE label = "Pobre"     -> 0
      [] label = "Marginal"  -> 1
      [] label = "Aceptable" -> 2
      [] label = "Bueno"     -> 3
      [] label = "Excelente" -> 4

\* C18: every score gets exactly one of the five labels: Excelente from 85,
\* Bueno from 70 to below 85, Aceptable from 55 to below 70, Marginal from
\* 40 to below 55 and Pobre below 40; a higher score never gets a worse
\* label.
C18_ScoreClassification ==
    ClassificationCalled =>
        LET score == classified[1].score
            label == classified[1].out.label
        IN  /\ label \in {"Pobre", "Marginal", "Aceptable", "Bueno", "Excelente"}
            /\ label = "Excelente" <=> NumGe(score, Num(85))
            /\ label = "Bueno"     <=> NumGe(score, Num(70)) /\ NumLt(score, Num(85))
            /\ label = "Aceptable" <=> NumGe(score, Num(55)) /\ NumLt(score, Num(70))
            /\ label = "Marginal"  <=> NumGe(score, Num(40)) /\ NumLt(score, Num(55))
            /\ label = "Pobre"     <=> NumLt(score, Num(40))
            /\ \A higher \in Scores :
                  NumGt(higher, score) =>
                      Rank(GetScoreClassification(higher).label) >= Rank(label)

\* A score on a threshold: it gets the label that begins there.
C18_Witness ==
    /\ ClassificationCalled
    /\ classified[1].score = Num(85)
    /\ classified[1].out.label = "Excelente"

\* C20: for a non-empty list of fills accountAge is a non-negative integer,
\* the floor of (now - earliest timestamp) / 86,400,000, the earliest
\* timestamp being the minimum over all fills whatever their order.  With
\* now - earliest = days * 86,400,000 + ms, the floor is the integer age
\* with age * 86,400,000 <= now - earliest < (age + 1) * 86,400,000.
C20_AccountAge ==
    (Called /\ Fetched # <<>>) =>
        \E i \in 1..Len(Fetched) :
            /\ \A j \in 1..Len(Fetched) : TimeLe(Fetched[i].time, Fetched[j].time)
            /\ LET age  == Validation.metrics.accountAge
                   days == results[1].at.d - Fetched[i].time.d
                   ms   == results[1].at.ms - Fetched[i].time.ms
               IN  /\ age \in Nat
                   /\ (age - days) * MsPerDay <= ms
                   /\ ms < (age - days + 1) * MsPerDay

\* A validated batch: the leaderboard was fetched, validate=true, and the
\* tasks of the traders have been started.
BatchStarted ==
    /\ handler.pc \in {"awaiting", "replied"}
    /\ handler.validate
    /\ handler.leaderboard.kind = "ok"

Replied == handler.pc = "replied"

Batch == 1..Len(handler.filtered)

Settled(i) == handler.tasks[i] # Pending

\* The upstream answers the userFills request of trader i with a status that
\* is not ok, a network error or a body that is no array.
FetchFailed(i) == BatchResponse(handler.upstream[i]).kind # "ok"

\* The fill array fetched for trader i has an entry that is null.
HasNullFill(i) ==
    LET resp == BatchResponse(handler.upstream[i])
    IN  resp.kind = "ok" /\ \E k \in 1..Len(resp.body) : resp.body[k] = Null

\* The fills of trader i: the array the upstream has for it, none when the
\* fetch fails.
OwnFills(i) ==
    IF FetchFailed(i) THEN <<>> ELSE BatchResponse(handler.upstream[i]).body

\* The validation of trader i evaluated on its own at time t: from its
\* fills and the pnl of its leaderboard entry.
Alone(i, t) ==
    WithAddress(handler.filtered[i].ethAddress,
                ValidateFills(OwnFills(i),
                              GetPerformance(handler.filtered[i], "allTime").pnl.n, t))

\* C11: in a validated batch a trader whose fetch of fills fails is
\* evaluated with the empty list (unreliable, the single reason "No trade
\* history available"), its task never makes the request fail (the request
\* fails only when the validation of a trader whose fetch succeeded has
\* thrown), a request that succeeds answers with every trader of the batch,
\* and every other trader has the result of its own fills.
C11_FetchFailureIsolated ==
    BatchStarted =>
        /\ \A i \in Batch :
              (Settled(i) /\ FetchFailed(i)) =>
                  /\ handler.tasks[i].state = "fulfilled"
                  /\ handler.tasks[i].trader.is_reliable = FALSE
                  /\ handler.tasks[i].trader.validation.isReliable = FALSE
                  /\ handler.tasks[i].trader.validation.reasons =
                         <<[text |-> "No trade history available", args |-> <<>>]>>
                  /\ handler.tasks[i].trader.validation.metrics.totalTrades = 0
        /\ (Replied /\ ~handler.reply.success) =>
              \E k \in Batch : handler.tasks[k].state = "rejected" /\ ~FetchFailed(k)
        /\ (Replied /\ handler.reply.success) =>
              /\ handler.reply.count = Len(handler.filtered)
              /\ \A i \in Batch :
                    \E k \in 1..Len(handler.reply.traders) :
                        handler.reply.traders[k] = handler.tasks[i].trader
              /\ \A j \in Batch :
                    (~FetchFailed(j) /\ \E i \in Batch \ {j} : FetchFailed(i)) =>
                        handler.tasks[j].trader.validation = Alone(j, handler.tasks[j].at)

\* A batch of two: the fetch of one trader fails with a status that is not
\* ok, the other trader has a history that passes every rule, and the
\* request succeeds with both.
C11_Witness ==
    /\ BatchStarted
    /\ Replied
    /\ handler.reply.success
    /\ handler.reply.count = 2
    /\ \E i, j \in Batch :
          /\ handler.upstream[i] = "http_error"
          /\ handler.tasks[i].trader.validation.metrics.totalTrades = 0
          /\ handler.tasks[j].trader.is_reliable

\* C12: a batch never fails as a whole because of the data of one trader:
\* also when the fill array of a trader has an entry that is null the
\* response is success = true and has the results of all other traders.
C12_BadDataIsolated ==
    (BatchStarted /\ Replied) =>
        /\ handler.reply.success
        /\ \A i \in Batch :
              ~HasNullFill(i) =>
                  \E k \in 1..Len(handler.reply.traders) :
                      handler.reply.traders[k].id = handler.filtered[i].ethAddress

\* C14: the validation of a trader in a batch depends on its own fills and
\* leaderboard pnl only: whenever its task finishes, whatever the other
\* traders and the order of the tasks, it is the validation the trader gets
\* evaluated alone, as at the time the batch was started.  Stated for the
\* batches of two traders and more.
C14_TraderIndependent ==
    (BatchStarted /\ Len(handler.filtered) >= 2) =>
        \A i \in Batch :
            handler.tasks[i].state = "fulfilled" =>
                handler.tasks[i].trader.validation = Alone(i, handler.receivedAt)

PerformanceCalled == call # <<>> /\ call[1].fn = "getPerformance"

\* The pairs of the requested window in the entry of the call.
RequestedWindow ==
    IF "windowPerformances" \notin DOMAIN call[1].entry THEN <<>>
    ELSE SelectSeq(call[1].entry.windowPerformances,
                   LAMBDA pair : pair[1] = call[1].window)

\* What a field is reported as: its number, 0 when it does not parse.
Reported(field) == IF IsNaN(ParseFloat(field)) THEN Num(0) ELSE ParseFloat(field)

\* C21: an entry that lacks the requested window, or has no
\* windowPerformances at all, yields pnl = 0, roi = 0 and vlm = 0; otherwise
\* every field of the window is reported as its number, and as 0 when it
\* does not parse as a number.
C21_MissingWindowIsZero ==
    PerformanceCalled =>
        IF RequestedWindow = <<>>
        THEN call[1].out = [pnl |-> Num(0), roi |-> Num(0), vlm |-> Num(0)]
        ELSE call[1].out = [pnl |-> Reported(RequestedWindow[1][2].pnl),
                            roi |-> Reported(RequestedWindow[1][2].roi),
                            vlm |-> Reported(RequestedWindow[1][2].vlm)]

\* An entry with the requested window whose pnl is no number and whose roi
\* is one.
C21_Witness ==
    /\ PerformanceCalled
    /\ RequestedWindow # <<>>
    /\ IsNaN(ParseFloat(RequestedWindow[1][2].pnl))
    /\ call[1].out.pnl = Num(0)
    /\ call[1].out.roi = Num(1)

\* An entry with windows, none of them the requested one.
C21_WitnessMissingWindow ==
    /\ PerformanceCalled
    /\ "windowPerformances" \in DOMAIN call[1].entry
    /\ call[1].entry.windowPerformances # <<>>
    /\ RequestedWindow = <<>>
    /\ call[1].out.pnl = Num(0)

FilteredCalled == call # <<>> /\ call[1].fn = "filtered"

\* C22: with validate=true one request validates and returns at most 50
\* traders, whatever the limit parameter and the size of the leaderboard.
C22_AtMostFiftyValidated ==
    (FilteredCalled /\ call[1].validate) => call[1].out <= MaxValidated

\* C23: after any sequence of INSERT and UPDATE statements without
\* total_score, the stored total_score of every row is
\* calculate_evaluation_score of the metrics the row has now.
C23_StoredScoreIsCurrent ==
    \A id \in 1..Len(db.evaluations) :
        db.evaluations[id].total_score =
            calculate_evaluation_score(db.evaluations[id].metrics,
                                       db.evaluations[id].selection_criteria)

\* A validated request has been answered with its traders.
ValidatedReply == BatchStarted /\ Replied /\ handler.reply.success

\* C24: in a validated response every trader with is_reliable = true is
\* before every trader with is_reliable = false, and traders of the same
\* reliability are in the order of their all-time leaderboard pnl,
\* descending.
C24_ReliableFirstThenPnl ==
    ValidatedReply =>
        \A k, l \in 1..Len(handler.reply.traders) :
            k < l =>
                LET a == handler.reply.traders[k]
                    b == handler.reply.traders[l]
                IN  /\ ~(~a.is_reliable /\ b.is_reliable)
                    /\ a.is_reliable = b.is_reliable =>
                           NumGe(a.metrics.pnl, b.metrics.pnl)

\* A response the sort had to reorder, with reliable and unreliable traders:
\* a trader is before one that was before it on the leaderboard.
C24_Witness ==
    /\ ValidatedReply
    /\ \E k, l \in 1..Len(handler.reply.traders) :
          /\ k < l
          /\ handler.reply.traders[k].rank > handler.reply.traders[l].rank
    /\ \E k, l \in 1..Len(handler.reply.traders) :
          handler.reply.traders[k].is_reliable /\ ~handler.reply.traders[l].is_reliable

FetchTradersCalled == call # <<>> /\ call[1].fn = "fetchHyperliquidTraders"

\* C25: called with onlyReliable = true, fetchHyperliquidTraders returns
\* only traders that passed validation (is_reliable = true), whatever the
\* validate option.
C25_OnlyReliableReturned ==
    (FetchTradersCalled /\ call[1].options.onlyReliable /\ ~call[1].out.thrown) =>
        \A k \in 1..Len(call[1].out.traders) : IsReliable(call[1].out.traders[k])

\* The calls of sessions s and t have the same display name and have both
\* returned.
SameNameReturned(s, t) ==
    /\ sessions[s].pc = "done"
    /\ sessions[t].pc = "done"
    /\ sessions[s].p_display_name = sessions[t].p_display_name

\* C26: under every interleaving of concurrent find_or_create_trader calls
\* with the same display name, all calls return the same trader id and
\* afterwards at most one row of traders has that display name.
C26_OneTraderPerName ==
    \A s, t \in 1..Len(sessions) :
        SameNameReturned(s, t) =>
            /\ sessions[s].v_trader_id = sessions[t].v_trader_id
            /\ Cardinality({i \in 1..Len(db.traders) :
                              db.traders[i].display_name = sessions[s].p_display_name}) <= 1

RetryFinished == retry.pc \in {"returned", "threw"}

\* The response the call returns.
Returned == retry.settled[Len(retry.settled)]

\* At most maxRetries + 1 requests, a new one only after a 429 response; a
\* returned response is the first that is not 429, or the 429 of request
\* maxRetries + 1.
RetryDiscipline ==
    /\ retry.requests <= retry.maxRetries + 1
    /\ \A i \in 1..Len(retry.settled) : i < retry.requests => retry.settled[i] = 429
    /\ retry.pc = "returned" =>
          /\ Len(retry.settled) = retry.requests
          /\ Returned \in Statuses
          /\ Returned = 429 => retry.requests = retry.maxRetries + 1

TraderScoreCalled == call # <<>> /\ call[1].fn = "calculateTraderScore"

\* C28: the score of calculateTraderScore, shown as "score/100", is between
\* 0 and 100 for every metrics record.
C28_TraderScoreWithinHundred ==
    TraderScoreCalled => (call[1].out >= 0 /\ call[1].out <= 100)

RiskProfileCalled ==
    call # <<>> /\ call[1].fn = "getRiskProfile" /\ call[1].metrics # NoMetrics

\* The record of the call has the key with a value for which P holds.
StoredDrawdownAbove(limit) ==
    "max_drawdown_pct" \in DOMAIN call[1].metrics /\ call[1].metrics.max_drawdown_pct > limit

StoredWinRateBelow(limit) ==
    "win_rate_pct" \in DOMAIN call[1].metrics /\ call[1].metrics.win_rate_pct < limit

\* C29: a record whose drawdown is above 35, or whose win rate is below 35
\* (a stored win rate of 0 included), or whose drawdown is above 25 with a
\* win rate below 45, is classified as peligroso.
C29_DangerousIsPeligroso ==
    (RiskProfileCalled /\ (\/ StoredDrawdownAbove(35)
                           \/ StoredWinRateBelow(35)
                           \/ (StoredDrawdownAbove(25) /\ StoredWinRateBelow(45)))) =>
        call[1].out.level = "peligroso"

ValidateTraderCalled == call # <<>> /\ call[1].fn = "validateTrader"

ValidateTraderReturned == ValidateTraderCalled /\ call[1].pc = "returned"

\* C30: calculateMaxDrawdown, calculateTopCoins and the metric computations
\* of validateTrader leave the fetched array of fills as it was: the same
\* elements in the same order with the same field values.
C30_FetchedFillsUnchanged ==
    ValidateTraderCalled => Deref(memory, call[1].fills) = call[1].fetched

\* validateTrader has returned for fills that were fetched out of the order
\* of their times, so that its sort had something to move.
C30_Witness ==
    /\ ValidateTraderReturned
    /\ call[1].fetched # SortByTime(call[1].fetched)
    /\ NumGt(call[1].out.maxDrawdown, Num(0))

====
